---- MODULE Spec2Model ----
(***************************************************************************)
(* Agentic Operation System (aos): the ledger, the orchestrator and the    *)
(* agent execution engine as one state machine.                            *)
(*                                                                         *)
(* Scheduling.  Every coroutine runs on one asyncio event loop, so a task  *)
(* runs alone from one suspension point to the next.  The suspension       *)
(* points of the code are the LLM calls (call_llm) and asyncio.sleep; the  *)
(* ledger lock, the agent-creation lock, Toolbox.initialize, send_message, *)
(* get_messages and the messaging and file_manager tools never suspend.    *)
(* Each action below is one such run-to-suspension segment.                *)
(*                                                                         *)
(* Money.  Amounts are exact multiples of a unit small enough that every   *)
(* product by 0.75 the code can compute is a whole number of units.        *)
(***************************************************************************)
EXTENDS Integers, Sequences, FiniteSets, TLC

\* ------------------------------------------------------------------------
\* Configuration (SystemConfig) and bounds
\* ------------------------------------------------------------------------

max_agents == 3

\* Money unit: 4^max_agents model units, so that 0.75 * x stays whole after
\* every chain of at most max_agents - 1 admitted delegations.
RECURSIVE Pow4(_)
Pow4(n) == IF n = 0 THEN 1 ELSE 4 * Pow4(n - 1)

Unit == Pow4(max_agents)

initial_budget == 20 * Unit
spawn_cost     == Unit
tool_use_cost  == Unit

\* Cost of one LLM call whose token counts are not zero.
LlmCost == Unit

\* Bounds of the ledger-only specification.
MaxAmount   == 1
MaxTx       == 2
MaxAccounts == 2

None == 0

\* step_index = None (plan steps are numbered from 0)
NoStep == 0 - 1
AgentIds == 1 .. max_agents

\* Account ids the callers of the ledger-only specification use.
LedgerIds == 1 .. MaxAccounts

\* Bound of the whole-system specification: LLM answers delivered to workers.
MaxLLMCalls == 3

\* The sender id "AOS_SYSTEM": not the id of any agent.
AOS_SYSTEM == max_agents + 2

VARIABLES
    ledger,                 \* Ledger: [agent_balances, transactions]
    opened,                 \* history: account id -> initial_balance given to create_account
    ev,                     \* history: the call made by the last step
    config,                 \* SystemConfig: capabilities and disabled_tools
    agents,                 \* Orchestrator.agents: id -> Agent
    mailboxes,              \* Orchestrator.mailboxes: id -> deque of messages
    running_tasks,          \* Orchestrator.running_tasks: id -> position of the task
    pending_tool_requests,  \* Orchestrator.pending_tool_requests: requester -> description
    plugins,                \* tool names found in the plugins directory
    workspace,              \* files in each agent's workspace directory
    orch,                   \* position of boot() / Orchestrator.run()
    clock,                  \* event-loop time stamped on messages
    received,               \* history: timestamps each agent got from get_messages
    llm_calls,              \* number of LLM answers delivered to workers
    delivery,               \* files in the delivery folder
    lock,                   \* Ledger._lock: the ledger call holding it, or None
    calls,                  \* ledger calls in progress: caller -> call and position
    serial,                 \* history: the ledger if the calls ran one at a time
    disk,                   \* paths of the files written through a file manager
    connected_clients,      \* Orchestrator.connected_clients: the visualizer clients
    notified                \* history: the events sent to the connected clients

ledgerVars == <<ledger, opened, ev>>

\* The variables of the component specifications (the ledger under
\* concurrent callers, the file manager on its own, the visualizer's event
\* stream).  The system specification is the run with no visualizer client
\* connected, in which _notify_clients sends nothing.
componentVars == <<lock, calls, serial, disk, connected_clients, notified>>

sysVars == <<config, agents, mailboxes, running_tasks, pending_tool_requests,
             plugins, workspace, orch, clock, received, llm_calls, delivery,
             componentVars>>

sysVarsButOrch == <<config, agents, mailboxes, running_tasks, pending_tool_requests,
                    plugins, workspace, clock, received, llm_calls, delivery,
                    componentVars>>

vars == <<ledger, opened, ev, config, agents, mailboxes, running_tasks,
          pending_tool_requests, plugins, workspace, orch, clock, received, llm_calls,
          delivery, lock, calls, serial, disk, connected_clients, notified>>

\* ------------------------------------------------------------------------
\* Ledger (src/aos/ledger.py)
\* ------------------------------------------------------------------------

Transaction(agent_id, transaction_type, amount) ==
    [agent_id |-> agent_id, transaction_type |-> transaction_type, amount |-> amount]

record_transaction(L, agent_id, transaction_type, amount) ==
    [L EXCEPT !.transactions = Append(@, Transaction(agent_id, transaction_type, amount))]

get_balance(L, agent_id) ==
    IF agent_id \in DOMAIN L.agent_balances THEN L.agent_balances[agent_id] ELSE 0

create_account_overwrite(L, agent_id, initial_balance) ==
    IF initial_balance < 0 THEN [L |-> L, ret |-> "ValueError"]
    ELSE [L   |-> [L EXCEPT !.agent_balances =
                        (agent_id :> initial_balance) @@ @],
          ret |-> IF agent_id \in DOMAIN L.agent_balances THEN "ValueError" ELSE "None"]

create_account(L, agent_id, initial_balance) ==
    IF agent_id \in DOMAIN L.agent_balances THEN [L |-> L, ret |-> "ValueError"]
    ELSE IF initial_balance < 0 THEN [L |-> L, ret |-> "ValueError"]
    ELSE [L   |-> [L EXCEPT !.agent_balances = @ @@ (agent_id :> initial_balance)],
          ret |-> "None"]

charge_overdraw(L, agent_id, amount, transaction_type) ==
    IF amount <= 0 THEN [L |-> L, ret |-> "ValueError"]
    ELSE IF agent_id \notin DOMAIN L.agent_balances
    THEN [L |-> L, ret |-> "AccountNotFoundError"]
    ELSE [L   |-> record_transaction(
                     [L EXCEPT !.agent_balances[agent_id] = @ - amount],
                     agent_id, transaction_type, 0 - amount),
          ret |-> "True"]

charge_silent_failure(L, agent_id, amount, transaction_type) ==
    IF amount <= 0 THEN [L |-> L, ret |-> "ValueError"]
    ELSE IF agent_id \notin DOMAIN L.agent_balances
    THEN [L |-> L, ret |-> "AccountNotFoundError"]
    ELSE IF L.agent_balances[agent_id] <= amount
    THEN [L |-> L, ret |-> "False"]
    ELSE [L   |-> record_transaction(
                     [L EXCEPT !.agent_balances[agent_id] = @ - amount],
                     agent_id, transaction_type, 0 - amount),
          ret |-> "True"]

charge(L, agent_id, amount, transaction_type) ==
    IF amount <= 0 THEN [L |-> L, ret |-> "ValueError"]
    ELSE IF agent_id \notin DOMAIN L.agent_balances
    THEN [L |-> L, ret |-> "AccountNotFoundError"]
    ELSE IF L.agent_balances[agent_id] < amount
    THEN [L   |-> record_transaction(L, agent_id, "agent_death", 0),
          ret |-> "False"]
    ELSE [L   |-> record_transaction(
                     [L EXCEPT !.agent_balances[agent_id] = @ - amount],
                     agent_id, transaction_type, 0 - amount),
          ret |-> "True"]

credit_unlogged(L, agent_id, amount, transaction_type) ==
    IF amount <= 0 THEN [L |-> L, ret |-> "ValueError"]
    ELSE IF agent_id \notin DOMAIN L.agent_balances
    THEN [L |-> L, ret |-> "AccountNotFoundError"]
    ELSE [L   |-> [L EXCEPT !.agent_balances[agent_id] = @ + amount],
          ret |-> "True"]

credit(L, agent_id, amount, transaction_type) ==
    IF amount <= 0 THEN [L |-> L, ret |-> "ValueError"]
    ELSE IF agent_id \notin DOMAIN L.agent_balances
    THEN [L |-> L, ret |-> "AccountNotFoundError"]
    ELSE [L   |-> record_transaction(
                     [L EXCEPT !.agent_balances[agent_id] = @ + amount],
                     agent_id, transaction_type, amount),
          ret |-> "True"]

transfer_one_sided(L, from_agent, to_agent, amount) ==
    IF amount <= 0 THEN [L |-> L, ret |-> "ValueError"]
    ELSE IF from_agent \notin DOMAIN L.agent_balances
    THEN [L |-> L, ret |-> "AccountNotFoundError"]
    ELSE IF to_agent \notin DOMAIN L.agent_balances
    THEN [L |-> L, ret |-> "AccountNotFoundError"]
    ELSE IF L.agent_balances[from_agent] < amount
    THEN [L |-> L, ret |-> "InsufficientFundsError"]
    ELSE LET L1 == [L EXCEPT !.agent_balances[from_agent] = @ - amount]
             L3 == record_transaction(L1, from_agent, "budget_allocation", 0 - amount)
         IN  [L   |-> record_transaction(L3, to_agent, "budget_allocation", amount),
              ret |-> "True"]

transfer(L, from_agent, to_agent, amount) ==
    IF amount <= 0 THEN [L |-> L, ret |-> "ValueError"]
    ELSE IF from_agent \notin DOMAIN L.agent_balances
    THEN [L |-> L, ret |-> "AccountNotFoundError"]
    ELSE IF to_agent \notin DOMAIN L.agent_balances
    THEN [L |-> L, ret |-> "AccountNotFoundError"]
    ELSE IF L.agent_balances[from_agent] < amount
    THEN [L |-> L, ret |-> "InsufficientFundsError"]
    ELSE LET L1 == [L  EXCEPT !.agent_balances[from_agent] = @ - amount]
             L2 == [L1 EXCEPT !.agent_balances[to_agent] = @ + amount]
             L3 == record_transaction(L2, from_agent, "budget_allocation", 0 - amount)
         IN  [L   |-> record_transaction(L3, to_agent, "budget_allocation", amount),
              ret |-> "True"]

RECURSIVE SumExpenditure(_)
SumExpenditure(txs) ==
    IF txs = <<>> THEN 0
    ELSE (IF Head(txs).amount < 0 THEN 0 - Head(txs).amount ELSE 0)
         + SumExpenditure(Tail(txs))

get_total_expenditure(L) == SumExpenditure(L.transactions)

\* Signed sum of the amounts recorded for one account.
RECURSIVE SumFor(_, _)
SumFor(txs, agent_id) ==
    IF txs = <<>> THEN 0
    ELSE (IF Head(txs).agent_id = agent_id THEN Head(txs).amount ELSE 0)
         + SumFor(Tail(txs), agent_id)

get_agent_transaction_history(L, agent_id) ==
    SelectSeq(L.transactions, LAMBDA t : t.agent_id = agent_id)

TransactionTypes ==
    {"api_call", "spawn_agent", "tool_usage", "budget_allocation", "agent_death", "refund"}

\* ------------------------------------------------------------------------
\* The ledger driven by arbitrary callers
\* ------------------------------------------------------------------------

Call(op, agent_id, amount, other, ret) ==
    [op |-> op, agent_id |-> agent_id, amount |-> amount, other |-> other, ret |-> ret]

InitLedger ==
    /\ ledger = [agent_balances |-> <<>>, transactions |-> <<>>]
    /\ opened = <<>>
    /\ ev = Call("init", None, 0, None, "None")
    /\ config = [allow_tool_creation |-> FALSE, allow_messaging |-> TRUE,
                 disabled_tools |-> {}]
    /\ agents = <<>>
    /\ mailboxes = <<>>
    /\ running_tasks = <<>>
    /\ pending_tool_requests = <<>>
    /\ plugins = {}
    /\ workspace = <<>>
    /\ orch = "boot"
    /\ clock = 0
    /\ received = <<>>
    /\ llm_calls = 0
    /\ delivery = {}
    /\ lock = None
    /\ calls = <<>>
    /\ serial = [agent_balances |-> <<>>, transactions |-> <<>>]
    /\ disk = {}
    /\ connected_clients = {}
    /\ notified = <<>>

LedgerCreateAccount ==
    \E a \in LedgerIds, b \in -1 .. MaxAmount :
        LET r == create_account(ledger, a, b) IN
        /\ ledger' = r.L
        /\ opened' = IF r.ret = "None" THEN opened @@ (a :> b) ELSE opened
        /\ ev' = Call("create_account", a, b, None, r.ret)
        /\ UNCHANGED sysVars

LedgerCharge ==
    \E a \in LedgerIds, amt \in 0 .. MaxAmount, t \in {"api_call"} :
        LET r == charge(ledger, a, amt, t) IN
        /\ Len(ledger.transactions) < MaxTx
        /\ ledger' = r.L
        /\ ev' = Call("charge", a, amt, None, r.ret)
        /\ UNCHANGED <<opened, sysVars>>

LedgerCredit ==
    \E a \in LedgerIds, amt \in 0 .. MaxAmount :
        LET r == credit(ledger, a, amt, "refund") IN
        /\ Len(ledger.transactions) < MaxTx
        /\ ledger' = r.L
        /\ ev' = Call("credit", a, amt, None, r.ret)
        /\ UNCHANGED <<opened, sysVars>>

LedgerTransfer ==
    \E a \in LedgerIds, b \in LedgerIds, amt \in 0 .. MaxAmount :
        LET r == transfer(ledger, a, b, amt) IN
        /\ Len(ledger.transactions) + 1 < MaxTx
        /\ ledger' = r.L
        /\ ev' = Call("transfer", a, amt, b, r.ret)
        /\ UNCHANGED <<opened, sysVars>>

\* Ledger.get_balance as a call: self.agent_balances.get(agent_id, 0.0) reads
\* and leaves the ledger as it is.
get_balance_call(L, agent_id) == [L |-> L, ret |-> get_balance(L, agent_id)]

LedgerGetBalance ==
    \E a \in LedgerIds :
        LET r == get_balance_call(ledger, a) IN
        /\ ledger' = r.L
        /\ ev' = Call("get_balance", a, r.ret, None, "float")
        /\ UNCHANGED <<opened, sysVars>>

NextLedger ==
    \/ LedgerGetBalance
    \/ LedgerCreateAccount
    \/ LedgerCharge
    \/ LedgerCredit
    \/ LedgerTransfer

SpecLedger == InitLedger /\ [][NextLedger]_vars

\* ------------------------------------------------------------------------
\* Properties of the ledger
\* ------------------------------------------------------------------------

\* C1: in every reachable state of the ledger, whatever create_account,
\* charge, credit and transfer calls were made, every account's balance is
\* at least 0.
C1_BalanceNonNegative ==
    \A a \in DOMAIN ledger.agent_balances : ledger.agent_balances[a] >= 0

\* A charge or a transfer has just been refused for lack of funds.
C1_Witness ==
    /\ ev.op \in {"charge", "transfer"}
    /\ ev.ret \in {"False", "InsufficientFundsError"}
    /\ ev.agent_id \in DOMAIN ledger.agent_balances
    /\ ledger.agent_balances[ev.agent_id] >= 0
    /\ ev.amount > ledger.agent_balances[ev.agent_id]

\* C4: charge(agent_id, amount > 0) on an existing account succeeds iff
\* balance >= amount; on success the balance goes down by amount and the
\* total expenditure up by amount; on failure it returns False, balances and
\* total expenditure stay as they were and exactly one agent_death
\* transaction of amount 0 is appended.
C4_ChargeContract ==
    [][(ev'.op = "charge" /\ ev'.amount > 0
            /\ ev'.agent_id \in DOMAIN ledger.agent_balances)
        => LET a == ev'.agent_id
               balance == ledger.agent_balances[a]
           IN  /\ ev'.ret \in {"True", "False"}
               /\ (ev'.ret = "True") <=> (balance >= ev'.amount)
               /\ ev'.ret = "True" =>
                    /\ ledger'.agent_balances =
                           [ledger.agent_balances EXCEPT ![a] = balance - ev'.amount]
                    /\ get_total_expenditure(ledger')
                           = get_total_expenditure(ledger) + ev'.amount
               /\ ev'.ret = "False" =>
                    /\ ledger'.agent_balances = ledger.agent_balances
                    /\ get_total_expenditure(ledger') = get_total_expenditure(ledger)
                    /\ ledger'.transactions =
                           Append(ledger.transactions, Transaction(a, "agent_death", 0))
      ]_vars

\* A charge equal to the whole balance has just succeeded and left 0.
C4_Witness ==
    /\ ev.op = "charge"
    /\ ev.ret = "True"
    /\ ev.amount > 0
    /\ ledger.agent_balances[ev.agent_id] = 0

\* C10 as stated: for every account the signed sum of the amounts the log
\* records for it equals the account's balance.
C10_LogSumIsBalance ==
    \A a \in DOMAIN ledger.agent_balances :
        SumFor(ledger.transactions, a) = ledger.agent_balances[a]

\* C10 amended: create_account logs nothing, so the signed sum of the
\* amounts recorded for an account equals its balance minus the initial
\* balance the account was opened with.
C10_LogSumIsBalanceChange ==
    \A a \in DOMAIN ledger.agent_balances :
        /\ a \in DOMAIN opened
        /\ SumFor(ledger.transactions, a) = ledger.agent_balances[a] - opened[a]

\* An account opened with money has been both credited and debited.
C10_Witness ==
    \E a \in DOMAIN ledger.agent_balances :
        /\ opened[a] > 0
        /\ \E i, j \in 1 .. Len(ledger.transactions) :
            /\ ledger.transactions[i].agent_id = a
            /\ ledger.transactions[j].agent_id = a
            /\ ledger.transactions[i].amount > 0
            /\ ledger.transactions[j].amount < 0

\* C21: create_account for an id that has an account, or with a negative
\* initial balance, raises and leaves the ledger as it was; charge and credit
\* for an id without an account raise and add neither an account nor a
\* transaction; get_balance for such an id returns 0 and adds no account.
C21_MisuseLeavesLedger ==
    [][/\ (/\ ev'.op = "create_account"
           /\ (ev'.agent_id \in DOMAIN ledger.agent_balances \/ ev'.amount < 0))
          => (ev'.ret = "ValueError" /\ ledger' = ledger)
       /\ (/\ ev'.op \in {"charge", "credit"}
           /\ ev'.agent_id \notin DOMAIN ledger.agent_balances)
          => (/\ ev'.ret \in {"AccountNotFoundError", "ValueError"}
              /\ ev'.amount > 0 => ev'.ret = "AccountNotFoundError"
              /\ ledger' = ledger)
       /\ (/\ ev'.op = "get_balance"
           /\ ev'.agent_id \notin DOMAIN ledger.agent_balances)
          => (ev'.amount = 0 /\ ledger' = ledger)]_vars

\* create_account was refused for an account that exists and keeps a balance
\* other than the one the call asked for, while another id has no account.
C21_Witness ==
    /\ ev.op = "create_account"
    /\ ev.ret = "ValueError"
    /\ ev.amount >= 0
    /\ ev.agent_id \in DOMAIN ledger.agent_balances
    /\ ledger.agent_balances[ev.agent_id] # ev.amount
    /\ \E b \in LedgerIds : b \notin DOMAIN ledger.agent_balances

\* ------------------------------------------------------------------------
\* The ledger called by concurrent tasks
\* ------------------------------------------------------------------------

\* Bound: the tasks that call the ledger, one call each.
MaxTasks == 2
Tasks == 1 .. MaxTasks

\* An account id no account was created for.
NoAccount == MaxAccounts + 1

IdleCall ==
    [op |-> "none", agent_id |-> None, amount |-> 0, other |-> None,
     pc |-> "idle", pending |-> <<>>, ret |-> "", expected |-> ""]

LedgerCalls ==
    {[op |-> o, agent_id |-> a, amount |-> m, other |-> None] :
        o \in {"charge", "credit"}, a \in LedgerIds \cup {NoAccount}, m \in 0 .. MaxAmount}
    \cup {[op |-> "transfer", agent_id |-> a, amount |-> m, other |-> b] :
            a \in LedgerIds \cup {NoAccount}, b \in LedgerIds \cup {NoAccount},
            m \in 0 .. MaxAmount}

\* The body of a call run without interruption on ledger L.
Apply(L, c) ==
    IF c.op = "charge" THEN charge(L, c.agent_id, c.amount, "api_call")
    ELSE IF c.op = "credit" THEN credit(L, c.agent_id, c.amount, "refund")
    ELSE transfer(L, c.agent_id, c.other, c.amount)

Returned(c) == Call(c.op, c.agent_id, c.amount, c.other, c.ret)

othersButLedger == <<opened, config, agents, mailboxes, running_tasks,
                     pending_tool_requests, plugins, workspace, orch, clock, received,
                     llm_calls, delivery, disk, connected_clients, notified>>

InitConcurrent ==
    /\ opened \in [LedgerIds -> 0 .. MaxAmount]
    /\ ledger = [agent_balances |-> opened, transactions |-> <<>>]
    /\ serial = ledger
    /\ lock = None
    /\ calls = [t \in Tasks |-> IdleCall]
    /\ ev = Call("init", None, 0, None, "None")
    /\ config = [allow_tool_creation |-> FALSE, allow_messaging |-> TRUE,
                 disabled_tools |-> {}]
    /\ agents = <<>>
    /\ mailboxes = <<>>
    /\ running_tasks = <<>>
    /\ pending_tool_requests = <<>>
    /\ plugins = {}
    /\ workspace = <<>>
    /\ orch = "boot"
    /\ clock = 0
    /\ received = <<>>
    /\ llm_calls = 0
    /\ delivery = {}
    /\ disk = {}
    /\ connected_clients = {}
    /\ notified = <<>>

\* A task calls charge, credit or transfer: the test of the amount precedes
\* "async with self._lock".
CallerInvoke(t) ==
    /\ calls[t].pc = "idle"
    /\ \E c \in LedgerCalls :
        /\ calls' = [calls EXCEPT ![t] =
                [op |-> c.op, agent_id |-> c.agent_id, amount |-> c.amount,
                 other |-> c.other, pending |-> <<>>,
                 pc |-> IF c.amount <= 0 THEN "returned" ELSE "acquire",
                 ret |-> IF c.amount <= 0 THEN "ValueError" ELSE "",
                 expected |-> IF c.amount <= 0 THEN Apply(serial, c).ret ELSE ""]]
        /\ ev' = IF c.amount <= 0 THEN Returned(calls'[t]) ELSE ev
    /\ UNCHANGED <<ledger, serial, lock, othersButLedger>>

LockAcquire_no_wait(t) ==
    /\ calls[t].pc = "acquire"
    /\ lock' = t
    /\ calls' = [calls EXCEPT ![t].pc = "locked"]
    /\ UNCHANGED <<ledger, serial, ev, othersButLedger>>

\* "async with self._lock": the task goes on once the lock is free.
LockAcquire(t) ==
    /\ calls[t].pc = "acquire"
    /\ lock = None
    /\ lock' = t
    /\ calls' = [calls EXCEPT ![t].pc = "locked"]
    /\ UNCHANGED <<ledger, serial, ev, othersButLedger>>

\* What LockedBody does when the call applied to the ledger gives r and the
\* call applied to the sequential ledger gives s.  The transactions r adds
\* are left to be recorded: each "await self._record_transaction" is taken as
\* a point where other tasks may run.  A call that records nothing leaves
\* the lock and returns, or raises, at once.
BodyDone(t, r, s, new) ==
    /\ ledger' = [ledger EXCEPT !.agent_balances = r.L.agent_balances]
    /\ serial' = s.L
    /\ calls' = [calls EXCEPT ![t].pc = IF new = <<>> THEN "returned" ELSE "record",
                              ![t].pending = new,
                              ![t].ret = r.ret,
                              ![t].expected = s.ret]
    /\ lock' = IF new = <<>> THEN None ELSE lock
    /\ ev' = IF new = <<>> THEN Returned(calls'[t]) ELSE ev

NewTransactions(L, r) ==
    SubSeq(r.L.transactions, Len(L.transactions) + 1, Len(r.L.transactions))

\* The locked body of charge, credit and transfer up to its first await: the
\* tests and the updates of agent_balances.
LockedBody(t) ==
    /\ calls[t].pc = "locked"
    /\ BodyDone(t, Apply(ledger, calls[t]), Apply(serial, calls[t]),
                NewTransactions(ledger, Apply(ledger, calls[t])))
    /\ UNCHANGED othersButLedger

\* _record_transaction appends one transaction; after the last one the call
\* leaves the lock and returns.
RecordTransaction(t) ==
    /\ calls[t].pc = "record"
    /\ ledger' = [ledger EXCEPT !.transactions = Append(@, Head(calls[t].pending))]
    /\ calls' = [calls EXCEPT ![t].pending = Tail(@),
                              ![t].pc = IF Len(calls[t].pending) = 1 THEN "returned"
                                        ELSE "record"]
    /\ lock' = IF Len(calls[t].pending) = 1 THEN None ELSE lock
    /\ ev' = IF Len(calls[t].pending) = 1 THEN Returned(calls'[t]) ELSE ev
    /\ UNCHANGED <<serial, othersButLedger>>

NextConcurrent ==
    \E t \in Tasks :
        \/ CallerInvoke(t)
        \/ LockAcquire(t)
        \/ LockedBody(t)
        \/ RecordTransaction(t)

SpecConcurrent == InitConcurrent /\ [][NextConcurrent]_vars

RECURSIVE SumOver(_, _)
SumOver(f, S) ==
    IF S = {} THEN 0
    ELSE LET x == CHOOSE y \in S : TRUE IN f[x] + SumOver(f, S \ {x})

SumBalances(L) == SumOver(L.agent_balances, DOMAIN L.agent_balances)

\* What a call whose body has run has added to the money in the ledger.
Inflow(c) ==
    IF c.pc \notin {"record", "returned"} \/ c.ret # "True" THEN 0
    ELSE IF c.op = "credit" THEN c.amount
    ELSE IF c.op = "charge" THEN 0 - c.amount
    ELSE 0

TransferCanSucceed(L, c) ==
    /\ c.agent_id \in DOMAIN L.agent_balances
    /\ c.other \in DOMAIN L.agent_balances
    /\ L.agent_balances[c.agent_id] >= c.amount

\* C16: a transfer of a positive amount that finds both accounts and enough
\* money takes the amount from one balance and adds it to the other in one
\* step and returns True, so that in every state any task can observe the sum
\* of the balances is what credits and charges alone account for; otherwise
\* it raises and leaves the balances and the transaction log as they were.
C16_TransferAtomic ==
    /\ [](SumBalances(ledger)
            = SumOver(opened, DOMAIN opened)
              + SumOver([t \in Tasks |-> Inflow(calls[t])], Tasks))
    /\ [][\A t \in Tasks :
            (calls[t].op = "transfer" /\ calls[t].pc = "locked" /\ calls'[t].pc # "locked")
            => IF TransferCanSucceed(ledger, calls[t])
               THEN /\ calls'[t].ret = "True"
                    /\ ledger'.agent_balances =
                         [[ledger.agent_balances
                            EXCEPT ![calls[t].agent_id] = @ - calls[t].amount]
                            EXCEPT ![calls[t].other] = @ + calls[t].amount]
                    /\ SumBalances(ledger') = SumBalances(ledger)
               ELSE /\ calls'[t].ret \in {"AccountNotFoundError", "InsufficientFundsError"}
                    /\ calls'[t].pc = "returned"
                    /\ ledger' = ledger]_vars

\* A transfer between two accounts has returned True while another task is
\* in the middle of its own call.
C16_Witness ==
    \E t \in Tasks, u \in Tasks :
        /\ calls[t].op = "transfer"
        /\ calls[t].pc = "returned"
        /\ calls[t].ret = "True"
        /\ calls[t].agent_id # calls[t].other
        /\ ledger.agent_balances[calls[t].other] > opened[calls[t].other]
        /\ calls[u].pc \in {"acquire", "locked", "record"}

\* Two charges on one account, each within the opening balance and together
\* beyond it, with no other call adding money to the account.
RacingCharges(t, u) ==
    /\ t # u
    /\ calls[t].op = "charge"
    /\ calls[u].op = "charge"
    /\ calls[t].agent_id = calls[u].agent_id
    /\ calls[t].agent_id \in DOMAIN opened
    /\ calls[t].amount > 0
    /\ calls[u].amount > 0
    /\ calls[t].amount <= opened[calls[t].agent_id]
    /\ calls[u].amount <= opened[calls[t].agent_id]
    /\ calls[t].amount + calls[u].amount > opened[calls[t].agent_id]
    /\ \A w \in Tasks \ {t, u} :
        \/ calls[w].op \in {"none", "charge"}
        \/ calls[w].op = "credit" /\ calls[w].agent_id # calls[t].agent_id
        \/ calls[w].op = "transfer" /\ calls[w].other # calls[t].agent_id

Succeeded(c) == c.pc \in {"record", "returned"} /\ c.ret = "True"

\* C17: the calls take effect one at a time in the order in which they enter
\* the lock: every call returns what it returns in that sequential order, the
\* balances are those of the sequential order, the transaction log is the
\* log of the sequential order (all of it whenever the lock is free), only
\* the holder of the lock changes the ledger, and two racing charges that the
\* balance cannot both cover never both succeed.
C17_Linearizable ==
    /\ [](/\ \A t \in Tasks :
                /\ calls[t].pc \in {"record", "returned"} => calls[t].ret = calls[t].expected
                /\ calls[t].pc \in {"locked", "record"} => lock = t
          /\ ledger.agent_balances = serial.agent_balances
          /\ Len(ledger.transactions) <= Len(serial.transactions)
          /\ ledger.transactions
                = SubSeq(serial.transactions, 1, Len(ledger.transactions))
          /\ lock = None => ledger = serial
          /\ \A t \in Tasks, u \in Tasks :
                RacingCharges(t, u) => ~(Succeeded(calls[t]) /\ Succeeded(calls[u])))
    /\ [][ledger' # ledger => (lock # None /\ calls[lock].pc \in {"locked", "record"}
                                /\ calls'[lock] # calls[lock])]_vars

\* Two charges raced for a balance that covers only one of them: both have
\* returned, one with True and one with False, and the log holds the charge
\* followed by the denial.
C17_Witness ==
    \E t \in Tasks, u \in Tasks :
        /\ RacingCharges(t, u)
        /\ calls[t].pc = "returned"
        /\ calls[u].pc = "returned"
        /\ calls[t].ret = "True"
        /\ calls[u].ret = "False"
        /\ Len(ledger.transactions) = 2
        /\ ledger.transactions[2].transaction_type = "agent_death"

\* ------------------------------------------------------------------------
\* Orchestrator (src/aos/orchestrator.py): admission and the message bus
\* ------------------------------------------------------------------------

\* The state the orchestrator, the agents and the ledger share, as one value
\* that the operations below transform.
Here ==
    [agents |-> agents, mailboxes |-> mailboxes, ledger |-> ledger, opened |-> opened,
     pending_tool_requests |-> pending_tool_requests, plugins |-> plugins,
     workspace |-> workspace, clock |-> clock, received |-> received,
     delivery |-> delivery]

Commit(S) ==
    /\ agents' = S.agents
    /\ mailboxes' = S.mailboxes
    /\ ledger' = S.ledger
    /\ opened' = S.opened
    /\ pending_tool_requests' = S.pending_tool_requests
    /\ plugins' = S.plugins
    /\ workspace' = S.workspace
    /\ clock' = S.clock
    /\ received' = S.received
    /\ delivery' = S.delivery

BuiltinPlugins == {"api_client", "file_manager", "messaging", "pytest_runner"}
GeneratedTool == "new_tool"
ToolFile == "new_tool.py"

\* Toolbox.initialize: the tools registered from the plugins directory.
Toolbox_initialize(plugin_names, disabled_tools, allow_messaging) ==
    {t \in plugin_names :
        /\ t \notin disabled_tools
        /\ (t = "messaging" => allow_messaging)}

AgentConfig(role, task, budget, parent_id, completion_criteria) ==
    [role |-> role, task |-> task, budget |-> budget, parent_id |-> parent_id,
     completion_criteria |-> completion_criteria]

\* Agent.__init__
Agent(cfg, toolbox) ==
    [config |-> cfg, state |-> "active", subagents |-> <<>>, delegated_tasks |-> <<>>,
     results |-> <<>>, consecutive_errors |-> 0, plan |-> <<>>, plan_created |-> FALSE,
     toolbox |-> toolbox]

\* uuid4: an id no earlier admission used.
NewAgentId(S) == Cardinality(DOMAIN S.mailboxes) + 1

create_agent_uncapped(S, cfg) ==
    LET agent_id == NewAgentId(S)
        toolbox  == Toolbox_initialize(S.plugins,
                        IF cfg.role = "Tool Forging Agent" THEN {} ELSE config.disabled_tools,
                        config.allow_messaging)
        S1   == [S EXCEPT !.mailboxes = @ @@ (agent_id :> <<>>),
                          !.received = @ @@ (agent_id :> <<>>),
                          !.workspace = @ @@ (agent_id :> {})]
        acct == create_account(S1.ledger, agent_id, cfg.budget)
    IN  [S |-> [S1 EXCEPT !.ledger = acct.L,
                          !.opened = @ @@ (agent_id :> cfg.budget),
                          !.agents = @ @@ (agent_id :> Agent(cfg, toolbox))],
         agent_id |-> agent_id, raised |-> ""]

create_agent_no_mailbox(S, cfg) ==
    IF Cardinality(DOMAIN S.agents) >= max_agents
    THEN [S |-> S, agent_id |-> None, raised |-> "MaxAgentsReachedError"]
    ELSE LET agent_id == Cardinality(DOMAIN S.agents) + 1
             toolbox  == Toolbox_initialize(S.plugins, config.disabled_tools,
                                            config.allow_messaging)
             S1   == [S EXCEPT !.received = @ @@ (agent_id :> <<>>),
                               !.workspace = @ @@ (agent_id :> {})]
             acct == create_account(S1.ledger, agent_id, cfg.budget)
         IN  [S |-> [S1 EXCEPT !.ledger = acct.L,
                               !.opened = @ @@ (agent_id :> cfg.budget),
                               !.agents = @ @@ (agent_id :> Agent(cfg, toolbox))],
              agent_id |-> agent_id, raised |-> ""]

\* Orchestrator._create_agent, under _agent_creation_lock.
create_agent(S, cfg) ==
    IF Cardinality(DOMAIN S.agents) >= max_agents
    THEN [S |-> S, agent_id |-> None, raised |-> "MaxAgentsReachedError"]
    ELSE LET agent_id == NewAgentId(S)
             toolbox  == Toolbox_initialize(S.plugins,
                             IF cfg.role = "Tool Forging Agent" THEN {}
                             ELSE config.disabled_tools,
                             config.allow_messaging)
             S1   == [S EXCEPT !.mailboxes = @ @@ (agent_id :> <<>>),
                               !.received = @ @@ (agent_id :> <<>>),
                               !.workspace = @ @@ (agent_id :> {})]
             acct == create_account(S1.ledger, agent_id, cfg.budget)
         IN  IF acct.ret # "None"
             THEN [S |-> S1, agent_id |-> None, raised |-> acct.ret]
             ELSE [S |-> [S1 EXCEPT !.ledger = acct.L,
                                    !.opened = @ @@ (agent_id :> cfg.budget),
                                    !.agents = @ @@ (agent_id :> Agent(cfg, toolbox))],
                   agent_id |-> agent_id, raised |-> ""]

spawn_agent(S, role, task, budget, parent_id, completion_criteria) ==
    create_agent(S, AgentConfig(role, task, budget, parent_id, completion_criteria))

Params(operation, recipient_id, status) ==
    [operation |-> operation, recipient_id |-> recipient_id, status |-> status]
NoParams == Params("", None, "")

\* completion_criteria = None
NoCriteria == [action |-> "", tool |-> "", parameters |-> NoParams]
\* A task text: context counts the "CONTEXT FROM PREVIOUS STEP" suffixes added.
PlainTask == [kind |-> "plain", description |-> "", context |-> 0]

spawn_founder_agent(S, budget) ==
    create_agent(S, AgentConfig("Founder", PlainTask, budget, None, NoCriteria))

Content(status, tool_code_path) == [status |-> status, tool_code_path |-> tool_code_path]

send_message(S, sender_id, recipient_id, content) ==
    IF recipient_id \notin DOMAIN S.mailboxes
    THEN [S |-> S, ret |-> "False"]
    ELSE LET message == [from |-> sender_id, to |-> recipient_id, content |-> content,
                         timestamp |-> S.clock]
         IN  [S   |-> [S EXCEPT !.mailboxes[recipient_id] = Append(@, message),
                                !.clock = @ + 1],
              ret |-> "True"]

get_messages(S, agent_id) ==
    IF agent_id \notin DOMAIN S.mailboxes
    THEN [S |-> S, messages |-> <<>>]
    ELSE [S |-> [S EXCEPT !.mailboxes[agent_id] = <<>>],
          messages |-> S.mailboxes[agent_id]]

\* get_messages called by the agent itself: what it reads is what it receives.
receive_messages(S, agent_id) ==
    LET g == get_messages(S, agent_id)
        stamps == [i \in 1 .. Len(g.messages) |-> g.messages[i].timestamp]
    IN  [S |-> [g.S EXCEPT !.received[agent_id] = @ \o stamps],
         messages |-> g.messages]

\* ------------------------------------------------------------------------
\* Orchestrator: system events and the tool-forging protocol
\* ------------------------------------------------------------------------

\* Descriptions are character sequences, so that the regular expression of
\* _extract_tool_description_from_task can be applied to them.
Descriptions == { <<"h", "a", "s", "h">> }

RECURSIVE UpToQuote(_)
UpToQuote(chars) ==
    IF chars = <<>> THEN <<>>
    ELSE IF Head(chars) = "'" THEN <<>>
    ELSE <<Head(chars)>> \o UpToQuote(Tail(chars))

RECURSIVE LStrip(_)
LStrip(chars) ==
    IF chars # <<>> /\ Head(chars) = " " THEN LStrip(Tail(chars)) ELSE chars

RECURSIVE RStrip(_)
RStrip(chars) ==
    IF chars # <<>> /\ chars[Len(chars)] = " "
    THEN RStrip(SubSeq(chars, 1, Len(chars) - 1)) ELSE chars

\* The forging task embeds the description between single quotes after
\* "description: " and the closing quote is always present; re.search with
\* '(.*?)' returns the text up to the first quote.  A task that was not built
\* by handle_tool_request has no such text (the result is None, here <<>>).
extract_tool_description_from_task(task) ==
    IF task.kind = "forging" THEN RStrip(LStrip(UpToQuote(task.description)))
    ELSE <<>>

Toolbox_refresh_skip_registered(tools, plugin_names, disabled_tools, allow_messaging) ==
    Toolbox_initialize(plugin_names, disabled_tools, allow_messaging) \ tools

\* Toolbox.refresh on a toolbox holding tools: initialize() starts again from
\* self.tools = {}.
Toolbox_refresh(tools, plugin_names, disabled_tools, allow_messaging) ==
    Toolbox_initialize(plugin_names, disabled_tools, allow_messaging)

refresh_all_toolboxes(S) ==
    [S EXCEPT !.agents =
        [a \in DOMAIN S.agents |->
            [S.agents[a] EXCEPT !.toolbox =
                Toolbox_refresh(@, S.plugins, config.disabled_tools,
                                config.allow_messaging)]]]

Without(f, k) == [x \in DOMAIN f \ {k} |-> f[x]]

deploy_new_tool(S, forger_agent_id, requester_agent_id, tool_path_in_workspace) ==
    IF tool_path_in_workspace \notin S.workspace[forger_agent_id]
    THEN S
    ELSE LET S1 == [S EXCEPT !.plugins = @ \cup {GeneratedTool}]
             S2 == refresh_all_toolboxes(S1)
             S3 == [S2 EXCEPT !.pending_tool_requests = Without(@, requester_agent_id)]
         IN  send_message(S3, AOS_SYSTEM, requester_agent_id,
                          Content("tool_request_fulfilled", "")).S

is_system_message(S, msg) ==
    /\ msg.from \in DOMAIN S.agents
    /\ S.agents[msg.from].config.role = "Tool Forging Agent"
    /\ msg.content.status = "tool_creation_success"

extendleft_unreversed(mailbox, messages_to_keep_for_agent) ==
    [i \in 1 .. Len(messages_to_keep_for_agent) |->
        messages_to_keep_for_agent[Len(messages_to_keep_for_agent) + 1 - i]] \o mailbox

\* deque.extendleft(reversed(messages_to_keep_for_agent))
extendleft_reversed(mailbox, messages_to_keep_for_agent) ==
    messages_to_keep_for_agent \o mailbox

\* The loop over the messages of one mailbox; raised is set when
\* pending_tool_requests.discard(...) is reached (a dict has no discard).
\* seen collects the timestamps of the system messages the loop came to.
RECURSIVE scan_messages(_, _, _, _, _)
scan_messages(S, agent_id, messages_to_process, messages_to_keep_for_agent, seen) ==
    IF messages_to_process = <<>>
    THEN [S |-> [S EXCEPT !.mailboxes[agent_id] =
                     extendleft_reversed(@, messages_to_keep_for_agent)],
          raised |-> "", seen |-> seen]
    ELSE LET msg == Head(messages_to_process) IN
         IF is_system_message(S, msg)
         THEN LET S1 == deploy_new_tool(S, msg.from, agent_id, msg.content.tool_code_path)
                  original_description ==
                      extract_tool_description_from_task(S1.agents[msg.from].config.task)
              IN  IF original_description # <<>>
                  THEN [S |-> S1, raised |-> "AttributeError",
                        seen |-> seen \cup {msg.timestamp}]
                  ELSE scan_messages(
                           [S1 EXCEPT !.agents[msg.from].state = "completed"],
                           agent_id, Tail(messages_to_process), messages_to_keep_for_agent,
                           seen \cup {msg.timestamp})
         ELSE scan_messages(S, agent_id, Tail(messages_to_process),
                            Append(messages_to_keep_for_agent, msg), seen)

\* The loop over list(self.agents.keys()), in insertion order (ids ascend).
\* agent_id of the value is the mailbox the pass was in when it raised.
RECURSIVE scan_mailboxes(_, _, _, _)
scan_mailboxes(S, agent_id, last_id, seen) ==
    IF agent_id > last_id
    THEN [S |-> S, raised |-> "", agent_id |-> None, seen |-> seen]
    ELSE IF agent_id \notin DOMAIN S.agents \/ agent_id \notin DOMAIN S.mailboxes
    THEN scan_mailboxes(S, agent_id + 1, last_id, seen)
    ELSE LET g == get_messages(S, agent_id) IN
         IF g.messages = <<>> THEN scan_mailboxes(S, agent_id + 1, last_id, seen)
         ELSE LET r == scan_messages(g.S, agent_id, g.messages, <<>>, seen) IN
              IF r.raised # ""
              THEN [S |-> r.S, raised |-> r.raised, agent_id |-> agent_id,
                    seen |-> r.seen]
              ELSE scan_mailboxes(r.S, agent_id + 1, last_id, r.seen)

process_system_events(S) == scan_mailboxes(S, 1, Cardinality(DOMAIN S.mailboxes), {})

ForgingTask(description) ==
    [kind |-> "forging", description |-> description, context |-> 0]

handle_tool_request_no_duplicate_test(S, requester_id, description) ==
    IF ~config.allow_tool_creation
    THEN [S |-> send_message(S, AOS_SYSTEM, requester_id,
                             Content("tool_request_denied", "")).S,
          raised |-> ""]
    ELSE LET S1 == [S EXCEPT !.pending_tool_requests =
                        (requester_id :> description) @@ @]
             r == spawn_agent(S1, "Tool Forging Agent", ForgingTask(description),
                              initial_budget \div 5, requester_id, NoCriteria)
         IN  [S |-> r.S, raised |-> r.raised]

\* Orchestrator.handle_tool_request
handle_tool_request(S, requester_id, description) ==
    IF ~config.allow_tool_creation
    THEN [S |-> send_message(S, AOS_SYSTEM, requester_id,
                             Content("tool_request_denied", "")).S,
          raised |-> ""]
    ELSE IF requester_id \in DOMAIN S.pending_tool_requests
    THEN [S |-> send_message(S, AOS_SYSTEM, requester_id,
                             Content("tool_request_duplicate", "")).S,
          raised |-> ""]
    ELSE LET S1 == [S EXCEPT !.pending_tool_requests = @ @@ (requester_id :> description)]
             forger_budget == initial_budget \div 5
             r == spawn_agent(S1, "Tool Forging Agent", ForgingTask(description),
                              forger_budget, requester_id, NoCriteria)
         IN  [S |-> r.S, raised |-> r.raised]

\* ------------------------------------------------------------------------
\* Agent (src/aos/agent.py)
\* ------------------------------------------------------------------------

MAX_CONSECUTIVE_ERRORS == 3

\* An entry of Agent.results; error says whether the dict has an "error" key.
Result(error, action, tool, parameters) ==
    [error |-> error, action |-> action, tool |-> tool, parameters |-> parameters]
ErrorResult == Result(TRUE, "", "", NoParams)

\* budget_to_allocate = spendable_balance * 0.75
Allocation(spendable_balance) == (spendable_balance * 3) \div 4

delegate_task_no_alloc_charge(S, self, details, step_index) ==
    LET parent_balance     == get_balance(S.ledger, self)
        budget_to_allocate == Allocation(parent_balance - spawn_cost)
        c1 == charge(S.ledger, self, spawn_cost, "spawn_agent")
        sp == spawn_agent([S EXCEPT !.ledger = c1.L], details.role, details.task,
                          budget_to_allocate, self, details.completion_criteria)
    IN  IF parent_balance < spawn_cost \/ sp.raised # ""
        THEN [S |-> S, result |-> ErrorResult, raised |-> "", spawn |-> "none"]
        ELSE [S |-> [sp.S EXCEPT
                        !.agents[self].subagents = Append(@, sp.agent_id),
                        !.agents[self].delegated_tasks =
                            IF step_index # NoStep THEN @ @@ (sp.agent_id :> step_index)
                            ELSE @],
              result |-> Result(FALSE, "delegate", "", NoParams), raised |-> "",
              spawn |-> "admitted"]

delegate_task_partial_refund(S, self, details, step_index) ==
    LET parent_balance     == get_balance(S.ledger, self)
        budget_to_allocate == Allocation(parent_balance - spawn_cost)
        c1 == charge(S.ledger, self, spawn_cost, "spawn_agent")
        c2 == charge(c1.L, self, budget_to_allocate, "budget_allocation")
        sp == spawn_agent([S EXCEPT !.ledger = c2.L], details.role, details.task,
                          budget_to_allocate, self, details.completion_criteria)
    IN  IF parent_balance < spawn_cost \/ c1.ret # "True" \/ c2.ret # "True"
        THEN [S |-> S, result |-> ErrorResult, raised |-> "", spawn |-> "none"]
        ELSE IF sp.raised # ""
        THEN [S |-> [sp.S EXCEPT
                        !.ledger = credit(sp.S.ledger, self, spawn_cost, "refund").L],
              result |-> ErrorResult, raised |-> "", spawn |-> sp.raised]
        ELSE [S |-> [sp.S EXCEPT
                        !.agents[self].subagents = Append(@, sp.agent_id),
                        !.agents[self].delegated_tasks =
                            IF step_index # NoStep THEN @ @@ (sp.agent_id :> step_index)
                            ELSE @],
              result |-> Result(FALSE, "delegate", "", NoParams), raised |-> "",
              spawn |-> "admitted"]

\* Agent._delegate_task.  raised names an exception that leaves the method.
delegate_task(S, self, details, step_index) ==
    LET parent_balance     == get_balance(S.ledger, self)
        spendable_balance  == parent_balance - spawn_cost
        budget_to_allocate == Allocation(spendable_balance)
        c1 == charge(S.ledger, self, spawn_cost, "spawn_agent")
        c2 == charge(c1.L, self, budget_to_allocate, "budget_allocation")
    IN  IF parent_balance < spawn_cost
        THEN [S |-> S, result |-> ErrorResult, raised |-> "", spawn |-> "none"]
        ELSE IF c1.ret \notin {"True", "False"}
        THEN [S |-> [S EXCEPT !.ledger = c1.L], result |-> ErrorResult, raised |-> c1.ret,
              spawn |-> "none"]
        ELSE IF c1.ret = "True" /\ c2.ret \notin {"True", "False"}
        THEN [S |-> [S EXCEPT !.ledger = c2.L], result |-> ErrorResult, raised |-> c2.ret,
              spawn |-> "none"]
        ELSE IF c1.ret = "False" \/ c2.ret = "False"
        THEN LET L1 == IF c1.ret = "False" THEN c1.L ELSE c2.L
                 rf == credit(L1, self, spawn_cost, "refund")
             IN  [S |-> [S EXCEPT !.ledger = rf.L], result |-> ErrorResult,
                  raised |-> IF rf.ret = "True" THEN "" ELSE rf.ret, spawn |-> "none"]
        ELSE LET sp == spawn_agent([S EXCEPT !.ledger = c2.L], details.role, details.task,
                                   budget_to_allocate, self, details.completion_criteria)
             IN  IF sp.raised # ""
                 THEN LET rf == credit(sp.S.ledger, self, spawn_cost + budget_to_allocate,
                                       "refund")
                      IN  [S |-> [sp.S EXCEPT !.ledger = rf.L], result |-> ErrorResult,
                           raised |-> IF rf.ret = "True" THEN "" ELSE rf.ret,
                           spawn |-> sp.raised]
                 ELSE [S |-> [sp.S EXCEPT
                                 !.agents[self].subagents = Append(@, sp.agent_id),
                                 !.agents[self].delegated_tasks =
                                     IF step_index # NoStep
                                     THEN @ @@ (sp.agent_id :> step_index) ELSE @],
                       result |-> Result(FALSE, "delegate", "", NoParams),
                       raised |-> "", spawn |-> "admitted"]

\* Toolbox.execute_tool for the tools whose effect on the shared state is
\* modelled: messaging (send_message) and file_manager write.  The value is
\* the state after the tool ran; the tool's own result dict is nested under
\* "result" by _use_tool and never adds an "error" key to the action result.
execute_tool(S, self, name, parameters) ==
    IF name \notin S.agents[self].toolbox THEN S
    ELSE IF name = "messaging"
    THEN send_message(S, self, parameters.recipient_id,
                      Content(parameters.status,
                              IF parameters.status = "tool_creation_success"
                              THEN ToolFile ELSE "")).S
    ELSE IF name = "file_manager" /\ parameters.operation = "write"
    THEN [S EXCEPT !.workspace[self] = @ \cup {ToolFile}]
    ELSE S

\* Agent._use_tool
use_tool(S, self, action) ==
    IF action.tool = "" THEN [S |-> S, result |-> ErrorResult, raised |-> ""]
    ELSE LET c == charge(S.ledger, self, tool_use_cost, "tool_usage") IN
         IF c.ret \notin {"True", "False"}
         THEN [S |-> S, result |-> ErrorResult, raised |-> c.ret]
         ELSE IF c.ret = "False"
         THEN [S |-> [S EXCEPT !.ledger = c.L], result |-> ErrorResult, raised |-> ""]
         ELSE [S |-> execute_tool([S EXCEPT !.ledger = c.L], self, action.tool,
                                  action.parameters),
               result |-> Result(FALSE, "use_tool", action.tool, action.parameters),
               raised |-> ""]

\* Agent._request_new_tool
request_new_tool(S, self, action) ==
    IF action.description = <<>>
    THEN [S |-> S, result |-> ErrorResult, raised |-> ""]
    ELSE LET h == handle_tool_request(S, self, action.description) IN
         [S |-> h.S, result |-> Result(FALSE, "request_new_tool", "", NoParams),
          raised |-> h.raised]

\* Agent.act on the parsed action.
act(S, self, action) ==
    IF action.type = "error" THEN [S |-> S, result |-> ErrorResult, raised |-> ""]
    ELSE IF action.type = "delegate"
    THEN delegate_task(S, self, action.details, action.details.step_index)
    ELSE IF action.type = "use_tool" THEN use_tool(S, self, action)
    ELSE IF action.type = "request_new_tool" THEN request_new_tool(S, self, action)
    ELSE IF action.type = "complete"
    THEN [S |-> [S EXCEPT !.agents[self].state = "completed"],
          result |-> Result(FALSE, "complete", "", NoParams), raised |-> ""]
    ELSE IF action.type = "fail"
    THEN [S |-> [S EXCEPT !.agents[self].state = "failed"],
          result |-> ErrorResult, raised |-> ""]
    ELSE [S |-> S, result |-> ErrorResult, raised |-> ""]

is_task_complete_fallback_only(agent) ==
    Cardinality({i \in 1 .. Len(agent.results) : ~agent.results[i].error}) >= 2

\* Agent._is_task_complete for a worker.
is_task_complete(agent) ==
    LET criteria == agent.config.completion_criteria
        ok == {i \in 1 .. Len(agent.results) : ~agent.results[i].error}
    IN  IF criteria = NoCriteria
        THEN Cardinality(ok) >= 2
        ELSE \E i \in ok :
                /\ agent.results[i].action = criteria.action
                /\ agent.results[i].tool = criteria.tool
                /\ agent.results[i].parameters = criteria.parameters

\* The file names of the model that end in one of the extensions
\* _deliver_files copies.
DeliverableFiles == {ToolFile}

\* Agent._deliver_files: list the workspace through the file manager and copy
\* every file with a listed extension to the delivery folder.
deliver_files(S, self) ==
    IF "file_manager" \notin S.agents[self].toolbox THEN S
    ELSE [S EXCEPT !.delivery = @ \cup (S.workspace[self] \cap DeliverableFiles)]

after_action_no_reset(S, self, result) ==
    LET S1 == [S EXCEPT !.agents[self].results = Append(@, result)]
        errors == S1.agents[self].consecutive_errors + 1
        S2 == IF result.error
              THEN [S1 EXCEPT !.agents[self].consecutive_errors = errors,
                              !.agents[self].state =
                                  IF errors >= MAX_CONSECUTIVE_ERRORS THEN "failed" ELSE @]
              ELSE S1
    IN  IF S2.agents[self].config.parent_id # None /\ is_task_complete(S2.agents[self])
        THEN [deliver_files(S2, self) EXCEPT !.agents[self].state = "completed"]
        ELSE S2

\* Agent.run, lines 144-164: record the result, count errors, check completion.
after_action(S, self, result) ==
    LET S1 == [S EXCEPT !.agents[self].results = Append(@, result)]
        errors == S1.agents[self].consecutive_errors + 1
        S2 == IF result.error
              THEN [S1 EXCEPT !.agents[self].consecutive_errors = errors,
                              !.agents[self].state =
                                  IF errors >= MAX_CONSECUTIVE_ERRORS THEN "failed" ELSE @]
              ELSE [S1 EXCEPT !.agents[self].consecutive_errors = 0]
    IN  IF S2.agents[self].config.parent_id # None /\ is_task_complete(S2.agents[self])
        THEN [deliver_files(S2, self) EXCEPT !.agents[self].state = "completed"]
        ELSE S2

\* ------------------------------------------------------------------------
\* What the LLM may answer
\* ------------------------------------------------------------------------

Details(role, task, completion_criteria, step_index) ==
    [role |-> role, task |-> task, completion_criteria |-> completion_criteria,
     step_index |-> step_index]
NoDetails == Details("", PlainTask, NoCriteria, NoStep)

\* The value of _parse_action.
Action(type, details, tool, parameters, description) ==
    [type |-> type, details |-> details, tool |-> tool, parameters |-> parameters,
     description |-> description]

Roles == {"Specialist", "Tool Forging Agent"}
WriteCriteria ==
    [action |-> "use_tool", tool |-> "file_manager", parameters |-> Params("write", None, "")]

\* A recipient id that names no agent.
NoSuchAgent == max_agents + 1

\* The thoughts think() may parse from an LLM answer: "error" stands for an
\* answer _parse_action cannot parse.
WorkerThoughts(self) ==
    {Action(t, NoDetails, "", NoParams, <<>>) : t \in {"error", "complete"}}
    \cup {Action("delegate", Details(r, PlainTask, NoCriteria, NoStep), "", NoParams, <<>>) :
            r \in {"Specialist"}}
    \cup {Action("use_tool", NoDetails, "messaging", Params("", m[1], m[2]), <<>>) :
            m \in {<<agents[self].config.parent_id, "tool_creation_success">>,
                   <<agents[self].config.parent_id, "task_completed">>,
                   <<NoSuchAgent, "task_completed">>}}
    \cup {Action("use_tool", NoDetails, "file_manager", Params("write", None, ""), <<>>)}
    \cup {Action("request_new_tool", NoDetails, "", NoParams, d) : d \in Descriptions}

PlanStep(role, completion_criteria) == Details(role, PlainTask, completion_criteria, NoStep)

\* The plans the planning prompt may return; <<>> stands for every answer
\* from which _create_plan gets no plan.
Plans ==
    { <<>>,
      <<PlanStep("Specialist", NoCriteria)>>,
      <<PlanStep("Tool Forging Agent", NoCriteria)>>,
      <<PlanStep("Specialist", WriteCriteria), PlanStep("Specialist", NoCriteria)>> }

\* ------------------------------------------------------------------------
\* Agent.run, one segment between two suspension points at a time
\* ------------------------------------------------------------------------

IsFounder(S, self) == S.agents[self].config.parent_id = None

get_next_action_from_plan_no_wait(S, self) ==
    LET g == receive_messages(S, self)
        agent == g.S.agents[self]
        next_step_index == Len(agent.subagents)
        nothing == Action("none", NoDetails, "", NoParams, <<>>)
    IN  IF ~S.agents[self].plan_created \/ S.agents[self].plan = <<>>
        THEN [S |-> S, action |-> nothing]
        ELSE IF next_step_index >= Len(agent.plan)
        THEN [S |-> [g.S EXCEPT !.agents[self].state = "completed"], action |-> nothing]
        ELSE IF /\ next_step_index > 0
                /\ g.S.agents[agent.subagents[next_step_index]].state = "active"
        THEN [S |-> g.S, action |-> nothing]
        ELSE [S |-> g.S,
              action |-> Action("delegate",
                                [agent.plan[next_step_index + 1] EXCEPT
                                    !.step_index = next_step_index],
                                "", NoParams, <<>>)]

get_next_action_from_plan_no_previous_test(S, self) ==
    LET g == receive_messages(S, self)
        agent == g.S.agents[self]
        next_step_index == Len(agent.subagents)
        nothing == Action("none", NoDetails, "", NoParams, <<>>)
    IN  IF ~S.agents[self].plan_created \/ S.agents[self].plan = <<>>
        THEN [S |-> S, action |-> nothing]
        ELSE IF next_step_index >= Len(agent.plan)
        THEN IF \A i \in 1 .. Len(agent.subagents) :
                    g.S.agents[agent.subagents[i]].state # "active"
             THEN [S |-> [g.S EXCEPT !.agents[self].state = "completed"], action |-> nothing]
             ELSE [S |-> g.S, action |-> nothing]
        ELSE [S |-> g.S,
              action |-> Action("delegate",
                                [agent.plan[next_step_index + 1] EXCEPT
                                    !.step_index = next_step_index],
                                "", NoParams, <<>>)]

\* The end of _get_next_action_from_plan: next_step_action is the step of
\* self.plan itself, so step_index and the context added to details.task
\* stay in the plan.
dispatch_step(S, self, next_step_index, with_context) ==
    [S |-> [S EXCEPT !.agents[self].plan[next_step_index + 1].step_index = next_step_index,
                     !.agents[self].plan[next_step_index + 1].task.context =
                         IF with_context THEN @ + 1 ELSE @],
     action |-> Action("delegate",
                       [S.agents[self].plan[next_step_index + 1] EXCEPT
                           !.step_index = next_step_index,
                           !.task.context = IF with_context THEN @ + 1 ELSE @],
                       "", NoParams, <<>>)]

\* Agent._get_next_action_from_plan; action.type = "none" stands for None.
get_next_action_from_plan(S, self) ==
    LET g == receive_messages(S, self)
        agent == g.S.agents[self]
        completed_artifacts ==
            {agent.delegated_tasks[g.messages[i].from] :
                i \in {j \in 1 .. Len(g.messages) :
                        /\ g.messages[j].from \in DOMAIN agent.delegated_tasks
                        /\ g.messages[j].content.status = "task_completed"}}
        next_step_index == Len(agent.subagents)
        nothing == Action("none", NoDetails, "", NoParams, <<>>)
    IN  IF ~S.agents[self].plan_created \/ S.agents[self].plan = <<>>
        THEN [S |-> S, action |-> nothing]
        ELSE IF next_step_index >= Len(agent.plan)
        THEN IF \A i \in 1 .. Len(agent.subagents) :
                    g.S.agents[agent.subagents[i]].state # "active"
             THEN [S |-> [g.S EXCEPT !.agents[self].state = "completed"], action |-> nothing]
             ELSE [S |-> g.S, action |-> nothing]
        ELSE IF /\ next_step_index > 0
                /\ g.S.agents[agent.subagents[next_step_index]].state = "active"
        THEN [S |-> g.S, action |-> nothing]
        ELSE dispatch_step(g.S, self, next_step_index,
                           next_step_index > 0
                           /\ (next_step_index - 1) \in completed_artifacts)

\* Agent.run after act() was awaited: r is what act() did.  An exception
\* ends the loop with the agent failed; otherwise the result is recorded and
\* the agent sleeps.
acted(self, r) ==
    IF r.raised # ""
    THEN [S |-> [r.S EXCEPT !.agents[self].state = "failed"], at |-> "done"]
    ELSE [S |-> after_action(r.S, self, r.result), at |-> "sleep"]

\* Agent.run of the founder once n, the value of
\* _get_next_action_from_plan, is known: sleep(2) without an action.
founder_act(self, n) ==
    IF n.action.type = "none" THEN [S |-> n.S, at |-> "sleep"]
    ELSE acted(self, act(n.S, self, n.action))

\* One iteration of the founder's loop, from the test of the loop to the
\* next suspension (sleep(2), sleep(0.1)) or to the end of run().
founder_iteration(S, self) ==
    IF S.agents[self].state # "active" THEN [S |-> S, at |-> "done"]
    ELSE founder_act(self, get_next_action_from_plan(S, self))

worker_think_no_balance_check(S, self) ==
    IF S.agents[self].state # "active" THEN [S |-> S, at |-> "done"]
    ELSE [S  |-> IF config.allow_messaging THEN receive_messages(S, self).S ELSE S,
          at |-> "think_llm"]

\* The first half of a worker's iteration: the test of the loop and think()
\* up to the LLM call.
worker_think(S, self) ==
    IF S.agents[self].state # "active" THEN [S |-> S, at |-> "done"]
    ELSE IF get_balance(S.ledger, self) <= 0
    THEN [S |-> [S EXCEPT !.agents[self].state = "dead"], at |-> "done"]
    ELSE [S  |-> IF config.allow_messaging THEN receive_messages(S, self).S ELSE S,
          at |-> "think_llm"]

\* The second half: the LLM answered with thought at the given cost.
worker_act(S, self, cost, thought) ==
    LET c  == charge(S.ledger, self, cost, "api_call")
        S1 == IF cost > 0 THEN [S EXCEPT !.ledger = c.L] ELSE S
    IN  IF cost > 0 /\ c.ret # "True"
        THEN [S |-> [S1 EXCEPT !.agents[self].state =
                        IF c.ret = "False" THEN "dead" ELSE "failed"],
              at |-> "done"]
        ELSE IF S1.agents[self].state # "active" THEN [S |-> S1, at |-> "done"]
        ELSE acted(self, act(S1, self, thought))

\* ------------------------------------------------------------------------
\* The whole system: boot(), Orchestrator.run() and the agent tasks
\* ------------------------------------------------------------------------

Configs ==
    [allow_tool_creation : BOOLEAN, allow_messaging : {TRUE}, disabled_tools : {{}}]

Init ==
    /\ ledger = [agent_balances |-> <<>>, transactions |-> <<>>]
    /\ opened = <<>>
    /\ ev = Call("init", None, 0, None, "None")
    /\ config \in Configs
    /\ agents = <<>>
    /\ mailboxes = <<>>
    /\ running_tasks = <<>>
    /\ pending_tool_requests = <<>>
    /\ plugins = BuiltinPlugins
    /\ workspace = <<>>
    /\ orch = "boot"
    /\ clock = 0
    /\ received = <<>>
    /\ llm_calls = 0
    /\ delivery = {}
    /\ lock = None
    /\ calls = <<>>
    /\ serial = [agent_balances |-> <<>>, transactions |-> <<>>]
    /\ disk = {}
    /\ connected_clients = {}
    /\ notified = <<>>

\* What the last step did, as far as the properties need to tell steps apart.
Step == Call("step", None, 0, None, "")

ActiveTasks(tasks) == {t \in DOMAIN tasks : tasks[t] # "done"}

\* Bootstrap.boot: spawn the founder, then enter Orchestrator.run().
Boot ==
    /\ orch = "boot"
    /\ LET r == spawn_founder_agent(Here, initial_budget) IN
        /\ Commit(r.S)
        /\ ev' = Call("create_agent", r.agent_id, initial_budget, None, r.raised)
    /\ orch' = "run"
    /\ UNCHANGED <<config, running_tasks, llm_calls, componentVars>>

all_agents_completed(S) ==
    /\ DOMAIN S.agents # {}
    /\ \A a \in DOMAIN S.agents : S.agents[a].state # "active"

\* _start_new_agent_tasks
start_new_agent_tasks(S, tasks) ==
    tasks @@ [a \in {x \in DOMAIN S.agents :
                        S.agents[x].state = "active" /\ x \notin DOMAIN tasks} |-> "start"]

\* One pass of the while loop of Orchestrator.run(), up to sleep(1.0), to the
\* exception that leaves run(), or through the break into
\* _cancel_all_running_tasks.  timed_out is _is_simulation_timed_out(); the
\* record of the pass holds 1 as its amount when it was true.
\* p is what _process_system_events did in this pass.
Pass(p) ==
    IF p.raised # ""
    THEN /\ Commit(p.S)
         /\ orch' = "crashed"
         /\ ev' = Call("tick", p.agent_id, 0, p.seen, p.raised)
         /\ UNCHANGED running_tasks
    ELSE \E timed_out \in BOOLEAN :
         LET active_tasks == ActiveTasks(running_tasks)
             tasks == start_new_agent_tasks(p.S, running_tasks)
             leave == (active_tasks = {} /\ all_agents_completed(p.S)) \/ timed_out
         IN  /\ Commit(p.S)
             /\ running_tasks' = tasks
             /\ orch' = IF ~leave THEN "run"
                        ELSE IF ActiveTasks(tasks) = {} THEN "returned"
                        ELSE "shutdown_wait"
             /\ ev' = Call("tick", None, IF timed_out THEN 1 ELSE 0, p.seen, "")

Tick ==
    /\ orch = "run"
    /\ Pass(process_system_events(Here))
    /\ UNCHANGED <<config, llm_calls, componentVars>>

\* _cancel_all_running_tasks: gather() ended before shutdown_timeout.
ShutdownJoin ==
    /\ orch = "shutdown_wait"
    /\ ActiveTasks(running_tasks) = {}
    /\ orch' = "returned"
    /\ ev' = Step
    /\ UNCHANGED <<ledger, opened, sysVarsButOrch>>

ShutdownTimeout_state_kept ==
    /\ orch = "shutdown_wait"
    /\ ActiveTasks(running_tasks) # {}
    /\ running_tasks' = [t \in DOMAIN running_tasks |-> "done"]
    /\ orch' = "returned"
    /\ ev' = Step
    /\ UNCHANGED <<ledger, opened, config, agents, mailboxes, pending_tool_requests,
                   plugins, workspace, clock, received, llm_calls, delivery, componentVars>>

\* _cancel_all_running_tasks: wait_for timed out, the tasks are cancelled and
\* _run_agent handles CancelledError in each of them.
ShutdownTimeout ==
    /\ orch = "shutdown_wait"
    /\ ActiveTasks(running_tasks) # {}
    /\ agents' = [a \in DOMAIN agents |->
                    IF a \in ActiveTasks(running_tasks)
                    THEN [agents[a] EXCEPT !.state = "failed"] ELSE agents[a]]
    /\ running_tasks' = [t \in DOMAIN running_tasks |-> "done"]
    /\ orch' = "returned"
    /\ ev' = Step
    /\ UNCHANGED <<ledger, opened, config, mailboxes, pending_tool_requests, plugins,
                   workspace, clock, received, llm_calls, delivery, componentVars>>

\* The record of a founder iteration for the history variable.
\* d is what _delegate_task did for an agent holding parent_balance.
DelegateEvent(self, parent_balance, d) ==
    LET subs == d.S.agents[self].subagents
    IN  Call("delegate", self, parent_balance,
             IF d.spawn = "admitted" THEN subs[Len(subs)] ELSE None,
             IF d.raised # "" THEN d.raised ELSE d.spawn)

FounderActEvent(self, n) ==
    IF n.action.type = "none" THEN Step
    ELSE DelegateEvent(self, get_balance(n.S.ledger, self),
                       delegate_task(n.S, self, n.action.details,
                                     n.action.details.step_index))

FounderEvent(S, self) ==
    IF S.agents[self].state # "active" THEN Step
    ELSE FounderActEvent(self, get_next_action_from_plan(S, self))

\* An agent task runs on to r.at, leaving the shared state r.S.
Resume(self, r, event) ==
    /\ Commit(r.S)
    /\ running_tasks' = [running_tasks EXCEPT ![self] = r.at]
    /\ ev' = event

\* Agent.run of the founder: _create_plan is entered and its LLM call awaited.
FounderStart(self) ==
    /\ self \in DOMAIN running_tasks
    /\ running_tasks[self] = "start"
    /\ IsFounder(Here, self)
    /\ running_tasks' = [running_tasks EXCEPT ![self] = "plan_llm"]
    /\ ev' = Step
    /\ UNCHANGED <<ledger, opened, config, agents, mailboxes, pending_tool_requests,
                   plugins, workspace, orch, clock, received, llm_calls, delivery,
                   componentVars>>

\* _create_plan returns; with a plan the founder goes through its first
\* iteration.
PlanReturn(self) ==
    /\ self \in DOMAIN running_tasks
    /\ running_tasks[self] = "plan_llm"
    /\ \E plan \in Plans :
        LET S1 == IF plan = <<>>
                  THEN [Here EXCEPT !.agents[self].state = "failed"]
                  ELSE [Here EXCEPT !.agents[self].plan = plan,
                                    !.agents[self].plan_created = TRUE]
        IN  Resume(self, founder_iteration(S1, self), FounderEvent(S1, self))
    /\ UNCHANGED <<config, orch, llm_calls, componentVars>>

\* The founder wakes from sleep(2) or sleep(0.1) and iterates.
FounderWake(self) ==
    /\ self \in DOMAIN running_tasks
    /\ running_tasks[self] = "sleep"
    /\ IsFounder(Here, self)
    /\ Resume(self, founder_iteration(Here, self), FounderEvent(Here, self))
    /\ UNCHANGED <<config, orch, llm_calls, componentVars>>

\* What think() returns without calling the LLM.
WorkerThinkEvent(S, self) ==
    IF S.agents[self].state = "active" /\ get_balance(S.ledger, self) <= 0
    THEN Call("think", self, 0, None, "Out of funds")
    ELSE Step

\* A worker starts, or wakes from sleep(0.1), and runs up to its LLM call.
WorkerWake(self) ==
    /\ self \in DOMAIN running_tasks
    /\ running_tasks[self] \in {"start", "sleep"}
    /\ ~IsFounder(Here, self)
    /\ Resume(self, worker_think(Here, self), WorkerThinkEvent(Here, self))
    /\ UNCHANGED <<config, orch, llm_calls, componentVars>>

\* The answers the LLM adapter may deliver: a thought that is charged for,
\* the adapter's fallback (action FAIL) with zero token counts, an
\* unparsable answer whose token counts cost all the agent has left, or a
\* tool call whose token counts leave the agent less than a tool costs.
LLMAnswers(self) ==
    {[cost |-> LlmCost, thought |-> t] : t \in WorkerThoughts(self)}
    \cup {[cost |-> 0, thought |-> Action("fail", NoDetails, "", NoParams, <<>>)]}
    \cup {[cost |-> get_balance(ledger, self),
           thought |-> Action("error", NoDetails, "", NoParams, <<>>)]}
    \cup {[cost |-> c,
           thought |-> Action("use_tool", NoDetails, "file_manager",
                              Params("write", None, ""), <<>>)] :
            c \in {get_balance(ledger, self) - (tool_use_cost \div 2)} \ (0 - initial_budget .. 0)}

\* The record of an action for the history variable.
ActEvent(S, self, thought) ==
    IF S.agents[self].state # "active" THEN Step
    ELSE IF thought.type = "delegate"
    THEN DelegateEvent(self, get_balance(S.ledger, self),
                       delegate_task(S, self, thought.details, thought.details.step_index))
    ELSE IF thought.type = "request_new_tool" /\ thought.description # <<>>
    THEN Call("request_new_tool", self, 0, None,
              handle_tool_request(S, self, thought.description).raised)
    ELSE IF /\ thought.type = "use_tool"
            /\ thought.tool = "messaging"
            /\ "messaging" \in S.agents[self].toolbox
            /\ charge(S.ledger, self, tool_use_cost, "tool_usage").ret = "True"
    THEN Call("send_message", self, 0, thought.parameters.recipient_id,
              send_message(S, self, thought.parameters.recipient_id,
                           Content(thought.parameters.status, "")).ret)
    ELSE IF /\ thought.type = "use_tool"
            /\ thought.tool # ""
            /\ charge(S.ledger, self, tool_use_cost, "tool_usage").ret = "False"
    THEN Call("use_tool", self, get_balance(S.ledger, self), None,
              "Insufficient funds for tool usage")
    ELSE Step

\* c is the charge for the LLM call: act() is reached only if it succeeded.
ChargedEvent(self, thought, c) ==
    IF c.ret = "False"
    THEN Call("think", self, 0, None, "Out of funds after final API call")
    ELSE IF c.ret # "True" THEN Step
    ELSE ActEvent([Here EXCEPT !.ledger = c.L], self, thought)

\* The LLM answers a worker, which charges the call and acts.
LLMReturn(self) ==
    /\ self \in DOMAIN running_tasks
    /\ running_tasks[self] = "think_llm"
    /\ llm_calls < MaxLLMCalls
    /\ \E answer \in LLMAnswers(self) :
        Resume(self, worker_act(Here, self, answer.cost, answer.thought),
               IF answer.cost > 0
               THEN ChargedEvent(self, answer.thought,
                                 charge(ledger, self, answer.cost, "api_call"))
               ELSE ActEvent(Here, self, answer.thought))
    /\ llm_calls' = llm_calls + 1
    /\ UNCHANGED <<config, orch, componentVars>>

Next ==
    \/ Boot
    \/ Tick
    \/ ShutdownJoin
    \/ ShutdownTimeout
    \/ \E self \in AgentIds : FounderStart(self)
    \/ \E self \in AgentIds : PlanReturn(self)
    \/ \E self \in AgentIds : FounderWake(self)
    \/ \E self \in AgentIds : WorkerWake(self)
    \/ \E self \in AgentIds : LLMReturn(self)

Spec == Init /\ [][Next]_vars

\* ------------------------------------------------------------------------
\* Properties of the orchestrator and the agents
\* ------------------------------------------------------------------------

\* Configurations a caller may pass to _create_agent.
ProbeConfigs ==
    {AgentConfig(role, PlainTask, budget, parent_id, NoCriteria) :
        role \in Roles, budget \in {0, Unit}, parent_id \in {None} \cup DOMAIN agents}

\* C2: in every reachable state at most max_agents agents are admitted; a
\* _create_agent call made while the agents map is full raises
\* MaxAgentsReachedError and leaves the agents map, the mailboxes and the
\* ledger accounts as they were.
C2_AgentCap ==
    /\ Cardinality(DOMAIN agents) <= max_agents
    /\ Cardinality(DOMAIN agents) >= max_agents =>
          \A cfg \in ProbeConfigs :
              create_agent(Here, cfg)
                  = [S |-> Here, agent_id |-> None, raised |-> "MaxAgentsReachedError"]
    /\ ev.ret = "MaxAgentsReachedError" =>
          /\ Cardinality(DOMAIN agents) = max_agents
          /\ DOMAIN mailboxes = DOMAIN agents
          /\ DOMAIN ledger.agent_balances = DOMAIN agents

\* An agent has just been refused admission because the system is full.
C2_Witness ==
    /\ ev.ret = "MaxAgentsReachedError"
    /\ Cardinality(DOMAIN agents) = max_agents

\* C3: after a delegation that admits a child, the parent's balance is lower
\* than before the delegation by exactly spawn_cost + allocation with
\* allocation = 0.75 * (balance_before - spawn_cost), the child's account
\* holds allocation, the child's parent_id is the parent and the child id is
\* appended to the parent's subagents.
C3_DelegationAccounting ==
    [][(ev'.op = "delegate" /\ ev'.ret = "admitted")
        => LET parent == ev'.agent_id
               child == ev'.other
               balance_before == ev'.amount
               allocation == ledger'.agent_balances[child]
           IN  /\ balance_before = ledger.agent_balances[parent]
                                   - (IF IsFounder(Here, parent) THEN 0 ELSE LlmCost)
               /\ child \notin DOMAIN agents
               /\ child \in DOMAIN agents'
               /\ 4 * allocation = 3 * (balance_before - spawn_cost)
               /\ ledger'.agent_balances[parent]
                      = balance_before - (spawn_cost + allocation)
               /\ agents'[child].config.parent_id = parent
               /\ agents'[parent].subagents = Append(agents[parent].subagents, child)
      ]_vars

\* A worker has just delegated and its child holds the allocation.
C3_Witness ==
    /\ ev.op = "delegate"
    /\ ev.ret = "admitted"
    /\ ~IsFounder(Here, ev.agent_id)
    /\ agents[ev.other].config.parent_id = ev.agent_id
    /\ ledger.agent_balances[ev.other] > 0

\* C14: a delegation refused with MaxAgentsReached leaves the parent with the
\* balance it had when the delegation began (both charges refunded), adds no
\* agent and no entry to subagents or delegated_tasks, records an error
\* result that counts as a consecutive error, and raises nothing in the
\* parent: it fails only when the error budget is used up.
C14_RefusedDelegationRefunded ==
    [][\A a \in DOMAIN agents :
        (ev'.op = "delegate" /\ ev'.agent_id = a /\ ev'.ret = "MaxAgentsReachedError")
        => /\ get_balance(ledger', a) = ev'.amount
           /\ ev'.amount >= spawn_cost
           /\ \A b \in DOMAIN ledger.agent_balances \ {a} :
                  get_balance(ledger', b) = get_balance(ledger, b)
           /\ DOMAIN agents' = DOMAIN agents
           /\ agents'[a].subagents = agents[a].subagents
           /\ agents'[a].delegated_tasks = agents[a].delegated_tasks
           /\ agents'[a].results = Append(agents[a].results, ErrorResult)
           /\ agents'[a].consecutive_errors = agents[a].consecutive_errors + 1
           /\ agents'[a].state =
                  IF agents'[a].consecutive_errors >= MAX_CONSECUTIVE_ERRORS
                  THEN "failed" ELSE "active"
           /\ running_tasks'[a] = "sleep"]_vars

\* A refused delegation after which the parent holds its earlier balance,
\* is still active and has the error on record.
C14_Witness ==
    /\ ev.op = "delegate"
    /\ ev.ret = "MaxAgentsReachedError"
    /\ ev.agent_id \in DOMAIN agents
    /\ get_balance(ledger, ev.agent_id) = ev.amount
    /\ agents[ev.agent_id].state = "active"
    /\ agents[ev.agent_id].consecutive_errors >= 1
    /\ agents[ev.agent_id].results # <<>>

\* The texts think() returns that begin with "Out of funds".
OutOfFundsTexts == {"Out of funds", "Out of funds after final API call"}

\* The parts of the state an action of agent a could touch, results included.
Acted(a) ==
    \/ agents'[a].results # agents[a].results
    \/ DOMAIN agents' # DOMAIN agents
    \/ workspace' # workspace
    \/ mailboxes' # mailboxes
    \/ pending_tool_requests' # pending_tool_requests
    \/ delivery' # delivery
    \/ ledger'.agent_balances # ledger.agent_balances

\* C15: a worker that starts think() with a balance <= 0, or whose charge
\* for the LLM call is denied, becomes dead; think() returns a text that
\* begins with "Out of funds", nothing is executed, delegated or recorded in
\* that iteration, and the worker's loop ends.
C15_OutOfFundsDead ==
    /\ [][\A a \in DOMAIN agents :
            /\ (/\ agents[a].config.parent_id # None
                /\ agents[a].state = "active"
                /\ a \in DOMAIN running_tasks
                /\ running_tasks[a] \in {"start", "sleep"}
                /\ running_tasks'[a] # running_tasks[a]
                /\ orch' = orch
                /\ get_balance(ledger, a) <= 0)
               => (ev'.op = "think" /\ ev'.agent_id = a)
            /\ (ev'.op = "think" /\ ev'.agent_id = a)
               => /\ ev'.ret \in OutOfFundsTexts
                  /\ agents'[a].state = "dead"
                  /\ running_tasks'[a] = "done"
                  /\ ~Acted(a)
                  /\ (ev'.ret = "Out of funds") <=> (get_balance(ledger, a) <= 0)]_vars
    /\ [](\A a \in DOMAIN running_tasks :
            (running_tasks[a] = "think_llm" /\ agents[a].state = "active")
            => \A answer \in LLMAnswers(a) :
                (answer.cost > get_balance(ledger, a))
                => /\ worker_act(Here, a, answer.cost, answer.thought).at = "done"
                   /\ worker_act(Here, a, answer.cost, answer.thought).S.agents[a].state
                          = "dead"
                   /\ ChargedEvent(a, answer.thought,
                                   charge(ledger, a, answer.cost, "api_call")).op = "think")

\* Both cases have happened: one worker is dead with a balance of zero, found
\* at the start of think(), and the last step denied the charge of another.
C15_Witness ==
    /\ ev.op = "think"
    /\ ev.ret = "Out of funds after final API call"
    /\ agents[ev.agent_id].state = "dead"
    /\ \E b \in DOMAIN agents :
            /\ agents[b].state = "dead"
            /\ get_balance(ledger, b) = 0

\* The Tool Forging Agents spawned for the tool requests of agent a.
ForgersFor(A, a) ==
    {f \in DOMAIN A : A[f].config.parent_id = a /\ A[f].config.task.kind = "forging"}

\* C18: a tool request made while tool creation is disabled, or while the
\* requester already has a pending entry, spawns no agent, leaves
\* pending_tool_requests as it is and puts one message from AOS_SYSTEM in the
\* requester's mailbox (tool_request_denied, or else tool_request_duplicate);
\* so a requester with a pending entry never gets a second forger.
C18_ToolRequestRefused ==
    [][\A a \in DOMAIN agents :
        (/\ ev'.op = "request_new_tool"
         /\ ev'.agent_id = a
         /\ (~config.allow_tool_creation \/ a \in DOMAIN pending_tool_requests))
        => /\ DOMAIN agents' = DOMAIN agents
           /\ ForgersFor(agents', a) = ForgersFor(agents, a)
           /\ pending_tool_requests' = pending_tool_requests
           /\ Len(mailboxes'[a]) = Len(mailboxes[a]) + 1
           /\ SubSeq(mailboxes'[a], 1, Len(mailboxes[a])) = mailboxes[a]
           /\ mailboxes'[a][Len(mailboxes'[a])].from = AOS_SYSTEM
           /\ mailboxes'[a][Len(mailboxes'[a])].content.status =
                 IF ~config.allow_tool_creation THEN "tool_request_denied"
                 ELSE "tool_request_duplicate"
           /\ ev'.ret = ""]_vars

\* A requester whose first request spawned a forger has asked again while its
\* entry was pending and got tool_request_duplicate.
C18_Witness ==
    /\ ev.op = "request_new_tool"
    /\ ev.agent_id \in DOMAIN pending_tool_requests
    /\ Cardinality(ForgersFor(agents, ev.agent_id)) = 1
    /\ mailboxes[ev.agent_id] # <<>>
    /\ mailboxes[ev.agent_id][Len(mailboxes[ev.agent_id])].content.status
          = "tool_request_duplicate"

\* The agent has sent parent a message with one of the statuses through the
\* messaging tool (the founder reads its whole mailbox at every poll).
HasReported(A, child, parent, statuses) ==
    \E i \in 1 .. Len(A[child].results) :
        /\ ~A[child].results[i].error
        /\ A[child].results[i].action = "use_tool"
        /\ A[child].results[i].tool = "messaging"
        /\ A[child].results[i].parameters.recipient_id = parent
        /\ A[child].results[i].parameters.status \in statuses

MessageStatuses == {"task_completed", "tool_creation_success"}

\* The step records that founder a delegates, or tries to delegate, a plan
\* step after the first.
DispatchesLaterStep(a) ==
    /\ agents[a].config.parent_id = None
    /\ ev'.op = "delegate"
    /\ ev'.agent_id = a
    /\ Len(agents[a].subagents) > 0

\* C23: the founder dispatches a plan step after the first only when the
\* child of the step before is not active and every child of an earlier step
\* has reported back with a message.
C23_DispatchAfterReports ==
    [][\A a \in DOMAIN agents :
        DispatchesLaterStep(a)
        => /\ agents[agents[a].subagents[Len(agents[a].subagents)]].state # "active"
           /\ \A k \in 1 .. Len(agents[a].subagents) :
                 HasReported(agents, agents[a].subagents[k], a, MessageStatuses)]_vars

\* C24: when the child of step N-1 has sent the founder task_completed
\* before step N is dispatched, the task of the agent spawned for step N
\* carries the CONTEXT FROM PREVIOUS STEP suffix.
C24_ContextPropagated ==
    [][\A a \in DOMAIN agents :
        (/\ DispatchesLaterStep(a)
         /\ ev'.ret = "admitted"
         /\ HasReported(agents, agents[a].subagents[Len(agents[a].subagents)], a,
                        {"task_completed"}))
        => agents'[ev'.other].config.task.context >= 1]_vars

\* The plan children of founder a that are active.
ActiveChildren(a) ==
    {k \in 1 .. Len(agents[a].subagents) : agents[agents[a].subagents[k]].state = "active"}

ChargeFailedInDelegation(a) ==
    /\ ev'.op = "delegate"
    /\ ev'.agent_id = a
    /\ ev'.amount >= spawn_cost
    /\ ev'.ret \notin {"admitted", "MaxAgentsReachedError"}

\* C26: a delegation attempted with balance >= spawn_cost (balance equal to
\* spawn_cost included) in which a charge fails leaves the parent's balance
\* as it was, raises nothing and records an error result.
C26_FailedChargesRefunded ==
    [][\A a \in DOMAIN agents :
        ChargeFailedInDelegation(a)
        => /\ get_balance(ledger', a) = ev'.amount
           /\ ev'.ret = "none"
           /\ Len(agents'[a].results) = Len(agents[a].results) + 1
           /\ agents'[a].results[Len(agents'[a].results)].error]_vars

RECURSIVE TrailingErrors(_)
\* The number of error results at the end of the recorded results.
TrailingErrors(results) ==
    IF results = <<>> \/ ~results[Len(results)].error THEN 0
    ELSE 1 + TrailingErrors(SubSeq(results, 1, Len(results) - 1))

\* C27: consecutive_errors counts the error results at the end of the
\* recorded results (a result without error resets it to 0), the agent is
\* failed in the very step that records its third consecutive error, and no
\* active agent has consecutive_errors >= MAX_CONSECUTIVE_ERRORS.
C27_ErrorBudget ==
    /\ [](\A a \in DOMAIN agents :
            /\ agents[a].consecutive_errors = TrailingErrors(agents[a].results)
            /\ agents[a].state = "active"
               => agents[a].consecutive_errors < MAX_CONSECUTIVE_ERRORS)
    /\ [][\A a \in DOMAIN agents :
            agents'[a].results # agents[a].results
            => /\ Len(agents'[a].results) = Len(agents[a].results) + 1
               /\ IF agents'[a].results[Len(agents'[a].results)].error
                  THEN /\ agents'[a].consecutive_errors = agents[a].consecutive_errors + 1
                       /\ agents'[a].consecutive_errors >= MAX_CONSECUTIVE_ERRORS
                          => agents'[a].state = "failed"
                  ELSE agents'[a].consecutive_errors = 0]_vars

\* One agent has failed on its third consecutive error after an earlier
\* result without error had reset its count.
C27_Witness ==
    \E a \in DOMAIN agents :
        /\ agents[a].state = "failed"
        /\ agents[a].consecutive_errors = MAX_CONSECUTIVE_ERRORS
        /\ Len(agents[a].results) > MAX_CONSECUTIVE_ERRORS
        /\ TrailingErrors(agents[a].results) = MAX_CONSECUTIVE_ERRORS

\* The step records that the ledger denied agent a a debit: the charge for
\* an LLM call or the charge for a tool.
DebitDenied(a) ==
    /\ ev'.agent_id = a
    /\ \/ ev'.op = "think" /\ ev'.ret = "Out of funds after final API call"
       \/ ev'.op = "use_tool" /\ ev'.ret = "Insufficient funds for tool usage"

\* C28: an agent whose charge for an LLM call or for a tool is denied by the
\* ledger is dead after the step, and the tool has not run.
C28_DeniedDebitDead ==
    [][\A a \in DOMAIN agents :
        DebitDenied(a)
        => /\ agents'[a].state = "dead"
           /\ workspace'[a] = workspace[a]]_vars

\* The step records a paid use of the messaging tool by a whose result is an
\* error: send_message found no mailbox for the recipient.
ToolReturnedError(a) ==
    /\ ev'.op = "send_message"
    /\ ev'.agent_id = a
    /\ ev'.ret = "False"

\* C29: a tool use whose tool returns an error result adds one to
\* consecutive_errors and fails the agent when the count reaches
\* MAX_CONSECUTIVE_ERRORS.
C29_ToolErrorsCounted ==
    [][\A a \in DOMAIN agents :
        ToolReturnedError(a)
        => /\ agents'[a].consecutive_errors = agents[a].consecutive_errors + 1
           /\ agents'[a].consecutive_errors >= MAX_CONSECUTIVE_ERRORS
              => agents'[a].state = "failed"]_vars

\* The step leaves the while loop of Orchestrator.run().
LoopExits == orch = "run" /\ orch' # "run"

\* The pass recorded by the step found the simulation timed out.
TimedOut == ev'.op = "tick" /\ ev'.amount = 1

\* C30: the event loop exits only when the simulation has timed out or when
\* every agent is in a terminal state and no agent task is unfinished; after
\* every pass that does not exit each active agent has a task; an agent's
\* task is started once, in a pass in which the agent is active, and never
\* started again.
C30_LoopExit ==
    /\ [][LoopExits
          => \/ TimedOut
             \/ /\ \A a \in DOMAIN agents' : agents'[a].state # "active"
                /\ ActiveTasks(running_tasks') = {}]_vars
    /\ [][(ev'.op = "tick" /\ orch' = "run")
          => \A a \in DOMAIN agents' :
                agents'[a].state = "active" => a \in DOMAIN running_tasks']_vars
    /\ [][\A a \in DOMAIN agents' :
            /\ a \in DOMAIN running_tasks
               => /\ a \in DOMAIN running_tasks'
                  /\ running_tasks[a] # "start" => running_tasks'[a] # "start"
            /\ (a \in DOMAIN running_tasks' /\ a \notin DOMAIN running_tasks)
               => /\ orch = "run"
                  /\ agents'[a].state = "active"
                  /\ running_tasks'[a] = "start"]_vars

\* C32: a REQUEST_NEW_TOOL action with a description raises nothing, records
\* the request_submitted result and does not leave the requester failed,
\* whatever the orchestrator does with the request.
C32_RequestReturnsMarker ==
    [][\A a \in DOMAIN agents :
        (ev'.op = "request_new_tool" /\ ev'.agent_id = a)
        => /\ ev'.ret = ""
           /\ agents'[a].state # "failed"
           /\ Len(agents'[a].results) = Len(agents[a].results) + 1
           /\ agents'[a].results[Len(agents'[a].results)]
                 = Result(FALSE, "request_new_tool", "", NoParams)]_vars

\* The timestamps of the messages get_messages hands to agent a in the step.
HandedOver(a) ==
    {received'[a][j] : j \in Len(received[a]) + 1 .. Len(received'[a])}

\* C33: no tool_creation_success message of a Tool Forging Agent waiting in
\* an agent's mailbox is handed to that agent by get_messages: the agent's
\* own drains of its mailbox leave it to the orchestrator's pass.
C33_SuccessIntercepted ==
    [][\A a \in DOMAIN mailboxes : \A i \in 1 .. Len(mailboxes[a]) :
        is_system_message(Here, mailboxes[a][i])
        => mailboxes[a][i].timestamp \notin HandedOver(a)]_vars

\* C35: the balances of all accounts never add up to more than the
\* founder's initial budget.
C35_NoFundsCreated == SumBalances(ledger) <= initial_budget

\* C36: once run() has returned, no admitted agent is active.
C36_NoActiveAtReturn ==
    orch = "returned" => \A a \in DOMAIN agents : agents[a].state # "active"

\* C37: a requester has an entry in pending_tool_requests only while a Tool
\* Forging Agent spawned for it is active.
C37_PendingOnlyWhileForging ==
    \A r \in DOMAIN pending_tool_requests :
        \E f \in DOMAIN agents :
            /\ agents[f].config.role = "Tool Forging Agent"
            /\ agents[f].config.parent_id = r
            /\ agents[f].state = "active"

\* _collect_results: hierarchy[p], the admitted agents whose parent is p.
Hierarchy(p) == {c \in DOMAIN agents : agents[c].config.parent_id = p}

\* C38: every admitted agent with a parent appears exactly once in the
\* parent's subagents, and the subagents of an agent are the agents whose
\* parent it is.
C38_HierarchyConsistent ==
    \A p \in DOMAIN agents :
        /\ \A c \in Hierarchy(p) :
              Cardinality({i \in 1 .. Len(agents[p].subagents) :
                              agents[p].subagents[i] = c}) = 1
        /\ \A i \in 1 .. Len(agents[p].subagents) : agents[p].subagents[i] \in Hierarchy(p)

TerminalStates == {"completed", "failed", "dead"}

\* C5: once an agent's state is Completed, Failed or Dead, no later step of
\* the system changes it.
C5_TerminalStatesSticky ==
    [][\A a \in DOMAIN agents :
          agents[a].state \in TerminalStates => agents'[a].state = agents[a].state]_vars

NonSystemMessages(mailbox) == SelectSeq(mailbox, LAMBDA msg : ~is_system_message(Here, msg))

\* C6: after a pass of _process_system_events over a mailbox, the mailbox
\* holds no tool_creation_success message of a Tool Forging Agent, and the
\* other messages it held before the pass are all still there, at its head,
\* in their order.
C6_PassKeepsOtherMessages ==
    [][ev'.op = "tick"
        => \A a \in DOMAIN agents :
              (mailboxes[a] # <<>> /\ (ev'.ret = "" \/ a <= ev'.agent_id))
              => LET kept == NonSystemMessages(mailboxes[a]) IN
                 /\ \A i \in 1 .. Len(mailboxes'[a]) :
                        ~is_system_message(Here, mailboxes'[a][i])
                 /\ Len(mailboxes'[a]) >= Len(kept)
                 /\ SubSeq(mailboxes'[a], 1, Len(kept)) = kept
      ]_vars

\* C7: when the event loop comes to a tool_creation_success message of a
\* Tool Forging Agent whose tool file is in the forger's workspace, the
\* plugin is deployed, every toolbox is refreshed, the requester's pending
\* request is cleared, tool_request_fulfilled from AOS_SYSTEM is queued to the
\* requester, the forger becomes Completed and the loop keeps running.
C7_ForgingProtocol ==
    [][ev'.op = "tick"
        => \A a \in DOMAIN agents : \A i \in 1 .. Len(mailboxes[a]) :
              LET msg == mailboxes[a][i] IN
              (/\ msg.timestamp \in ev'.other
               /\ msg.content.tool_code_path \in workspace[msg.from])
              => /\ GeneratedTool \in plugins'
                 /\ \A b \in DOMAIN agents :
                        agents'[b].toolbox
                            = Toolbox_initialize(plugins', config.disabled_tools,
                                                 config.allow_messaging)
                 /\ a \notin DOMAIN pending_tool_requests'
                 /\ \E j \in 1 .. Len(mailboxes'[a]) :
                        /\ mailboxes'[a][j].from = AOS_SYSTEM
                        /\ mailboxes'[a][j].content.status = "tool_request_fulfilled"
                 /\ agents'[msg.from].state = "completed"
                 /\ orch' # "crashed"
      ]_vars

RECURSIVE Ascending(_)
Ascending(stamps) ==
    \/ Len(stamps) < 2
    \/ stamps[1] < stamps[2] /\ Ascending(Tail(stamps))

Stamps(messages) == [i \in 1 .. Len(messages) |-> messages[i].timestamp]

\* C8: of two messages send_message accepted for one recipient, the one
\* sent later is never received from get_messages before the other, and the
\* messages still in the mailbox are in the order they were sent in, after
\* every message already received.
C8_MailboxFIFO ==
    \A a \in DOMAIN mailboxes : Ascending(received[a] \o Stamps(mailboxes[a]))

\* An agent has received two messages.
C8_Witness ==
    \E a \in DOMAIN mailboxes : Len(received[a]) >= 2

\* C9: every admitted agent has a mailbox and a ledger account opened with
\* its configured budget from the moment it is in the agents map, so before
\* _start_new_agent_tasks starts its task; no message to an admitted agent
\* is rejected.
C9_AdmissionComplete ==
    /\ \A a \in DOMAIN agents :
          /\ a \in DOMAIN mailboxes
          /\ a \in DOMAIN ledger.agent_balances
          /\ a \notin DOMAIN running_tasks =>
                ledger.agent_balances[a] = agents[a].config.budget
    /\ DOMAIN running_tasks \subseteq DOMAIN agents
    /\ (ev.op = "send_message" /\ ev.ret = "False") => ev.other \notin DOMAIN agents

\* A message to an id that names no agent has just been rejected while an
\* admitted agent that has not been started yet holds its budget.
C9_Witness ==
    /\ ev.op = "send_message"
    /\ ev.ret = "False"
    /\ \E a \in DOMAIN agents :
          /\ a \notin DOMAIN running_tasks
          /\ ledger.agent_balances[a] = agents[a].config.budget
          /\ ledger.agent_balances[a] > 0

\* A non-error result whose (action, tool, parameters) equals the criteria.
MatchesCriteria(result, criteria) ==
    /\ ~result.error
    /\ result.action = criteria.action
    /\ result.tool = criteria.tool
    /\ result.parameters = criteria.parameters

\* A worker with completion criteria whose results history holds a match.
HasMatchingResult(agent) ==
    /\ agent.config.parent_id # None
    /\ agent.config.completion_criteria # NoCriteria
    /\ \E i \in 1 .. Len(agent.results) :
            MatchesCriteria(agent.results[i], agent.config.completion_criteria)

\* C11: the step in which a worker with completion criteria records a result
\* that gives its history a matching non-error result leaves the worker
\* Completed with the deliverable files of its workspace copied to the
\* delivery folder; a worker whose history holds a match is never Active and
\* records no further result.
C11_CriteriaComplete ==
    [][\A a \in DOMAIN agents :
        /\ (HasMatchingResult(agents'[a]) /\ agents'[a].results # agents[a].results)
            => /\ agents[a].state = "active"
               /\ agents'[a].state = "completed"
               /\ "file_manager" \in agents'[a].toolbox
                    => (workspace'[a] \cap DeliverableFiles) \subseteq delivery'
        /\ HasMatchingResult(agents'[a]) => agents'[a].state # "active"
        /\ HasMatchingResult(agents[a]) => agents'[a].results = agents[a].results
      ]_vars

\* A worker met its completion criteria by writing a file, is Completed and
\* the file is in the delivery folder.
C11_Witness ==
    \E a \in DOMAIN agents :
        /\ HasMatchingResult(agents[a])
        /\ agents[a].state = "completed"
        /\ workspace[a] # {}
        /\ workspace[a] \subseteq delivery

\* The step records a COMPLETE action of agent a.
CompleteActionRecorded(a) ==
    /\ agents'[a].results # agents[a].results
    /\ agents'[a].results[Len(agents'[a].results)].action = "complete"

\* The orchestrator's pass marks the Tool Forging Agent a completed.
MarkedByOrchestrator(a) ==
    /\ ev'.op = "tick"
    /\ agents[a].config.role = "Tool Forging Agent"

\* C39: a worker goes from active to completed only by a COMPLETE action, by
\* a recorded non-error result that matches its completion criteria, or, for
\* a Tool Forging Agent, by the orchestrator's pass.
C39_CompletedOnlyByCriteria ==
    [][\A a \in DOMAIN agents :
        (/\ agents[a].config.parent_id # None
         /\ agents[a].state = "active"
         /\ agents'[a].state = "completed")
        => \/ CompleteActionRecorded(a)
           \/ HasMatchingResult(agents'[a])
           \/ MarkedByOrchestrator(a)]_vars

\* ------------------------------------------------------------------------
\* The system under fair scheduling
\* ------------------------------------------------------------------------

\* Every step of the plan has been delegated and every child is non-Active.
AllDelegatedAndDone(S, a) ==
    /\ S[a].plan_created
    /\ S[a].plan # <<>>
    /\ Len(S[a].subagents) = Len(S[a].plan)
    /\ \A i \in 1 .. Len(S[a].subagents) :
            /\ S[a].subagents[i] \in DOMAIN S
            /\ S[S[a].subagents[i]].state # "active"

FounderAwaitsCompletion(a) ==
    /\ a \in DOMAIN agents
    /\ agents[a].config.parent_id = None
    /\ agents[a].state = "active"
    /\ AllDelegatedAndDone(agents, a)

\* The step FounderWake takes when the founder wakes with every plan step
\* delegated and every child non-Active: _get_next_action_from_plan reads the
\* mailbox, sets COMPLETED and returns None, and run() goes to sleep(2).
FounderCompletes(self) ==
    /\ self \in DOMAIN running_tasks
    /\ running_tasks[self] = "sleep"
    /\ FounderAwaitsCompletion(self)
    /\ agents' = [agents EXCEPT ![self].state = "completed"]
    /\ mailboxes' = [mailboxes EXCEPT ![self] = <<>>]
    /\ received' = [received EXCEPT ![self] = @ \o Stamps(mailboxes[self])]
    /\ ev' = Step
    /\ UNCHANGED <<ledger, opened, config, running_tasks, pending_tool_requests, plugins,
                   workspace, orch, clock, llm_calls, delivery, componentVars>>

\* The event loop resumes a founder whose sleep has elapsed, and wait_for in
\* _cancel_all_running_tasks ends, by the tasks ending or by its timeout.
FairSpec ==
    /\ Spec
    /\ \A self \in AgentIds : WF_vars(FounderCompletes(self))
    /\ WF_vars(ShutdownJoin)
    /\ WF_vars(ShutdownTimeout)

\* The founder is Completed, or its task was cancelled and is scheduled no
\* more.
FounderCompletedOrCancelled(a) ==
    /\ a \in DOMAIN agents
    /\ \/ agents[a].state = "completed"
       \/ agents[a].state = "failed" /\ running_tasks[a] = "done"

C13_TimeoutReturns ==
    /\ (orch = "shutdown_wait") ~> (orch = "returned")
    /\ [][(orch = "shutdown_wait" /\ orch' = "returned")
            => \A a \in ActiveTasks(running_tasks) :
                    /\ agents'[a].state = "failed"
                    /\ running_tasks'[a] = "done"]_vars
    /\ [][orch = "returned" => (orch' = "returned" /\ agents' = agents)]_vars

\* run() has returned after the timeout cancelled the task of a founder that
\* had a plan and was waiting: no LLM answer was delivered and no action of
\* the founder failed.
C13_Witness ==
    /\ orch = "returned"
    /\ llm_calls = 0
    /\ \E a \in DOMAIN agents :
        /\ agents[a].plan_created
        /\ agents[a].plan # <<>>
        /\ agents[a].consecutive_errors = 0
        /\ agents[a].state = "failed"
        /\ running_tasks[a] = "done"

\* ------------------------------------------------------------------------
\* Toolboxes under a configuration that disables tools
\* ------------------------------------------------------------------------

\* "Le PytestRunnerTool est un outil système": is_protected_tool
ProtectedTools == {"pytest_runner"}

ToolboxConfigs ==
    [allow_tool_creation : {TRUE}, allow_messaging : BOOLEAN,
     disabled_tools : SUBSET {"pytest_runner", "file_manager", "messaging", GeneratedTool}]

InitToolbox ==
    /\ config \in ToolboxConfigs
    /\ plugins = BuiltinPlugins
    /\ agents = <<>>
    /\ ev = Call("init", None, 0, None, "None")
    /\ ledger = [agent_balances |-> <<>>, transactions |-> <<>>]
    /\ opened = <<>>
    /\ mailboxes = <<>>
    /\ running_tasks = <<>>
    /\ pending_tool_requests = <<>>
    /\ workspace = <<>>
    /\ orch = "boot"
    /\ clock = 0
    /\ received = <<>>
    /\ llm_calls = 0
    /\ delivery = {}
    /\ lock = None
    /\ calls = <<>>
    /\ serial = [agent_balances |-> <<>>, transactions |-> <<>>]
    /\ disk = {}
    /\ connected_clients = {}
    /\ notified = <<>>

othersButToolboxes == <<ledger, opened, mailboxes, running_tasks,
                        pending_tool_requests, workspace, orch, clock, received,
                        llm_calls, delivery, componentVars>>

\* The privilege logic of _create_agent with the restoring assignment left
\* out: the emptied list stays in the configuration.
create_agent_toolbox_not_restored(cfg, plugin_names, role) ==
    LET is_forger == role = "Tool Forging Agent"
        cleared == IF is_forger THEN [cfg EXCEPT !.disabled_tools = {}] ELSE cfg
    IN  [toolbox |-> Toolbox_initialize(plugin_names, cleared.disabled_tools,
                                        cleared.allow_messaging),
         config |-> cleared]

\* The privilege logic of _create_agent: config.disabled_tools is saved,
\* emptied for a Tool Forging Agent, read by Toolbox.initialize, and assigned
\* its saved value again.  Toolbox.initialize awaits only register_tool, whose
\* lock belongs to the toolbox being built, so nothing runs in between.
create_agent_toolbox(cfg, plugin_names, role) ==
    LET original_disabled_tools == cfg.disabled_tools
        is_forger == role = "Tool Forging Agent"
        cleared == IF is_forger THEN [cfg EXCEPT !.disabled_tools = {}] ELSE cfg
    IN  [toolbox |-> Toolbox_initialize(plugin_names, cleared.disabled_tools,
                                        cleared.allow_messaging),
         config |-> [cleared EXCEPT !.disabled_tools = original_disabled_tools]]

\* The temporary toolbox handle_tool_request builds for the forger's prompt:
\* always initialized with config.disabled_tools emptied, then the saved
\* value is assigned again.
forger_toolbox(cfg, plugin_names) ==
    LET original_disabled_tools == cfg.disabled_tools
        cleared == [cfg EXCEPT !.disabled_tools = {}]
    IN  [toolbox |-> Toolbox_initialize(plugin_names, cleared.disabled_tools,
                                        cleared.allow_messaging),
         config |-> [cleared EXCEPT !.disabled_tools = original_disabled_tools]]

\* _create_agent makes the toolbox of a new agent: a Tool Forging Agent's is
\* initialized while config.disabled_tools is emptied.
ToolboxCreate ==
    /\ Cardinality(DOMAIN agents) < max_agents
    /\ \E role \in {"Specialist", "Tool Forging Agent"} :
        LET r == create_agent_toolbox(config, plugins, role)
        IN  /\ agents' = agents @@
                  ((Cardinality(DOMAIN agents) + 1) :>
                      Agent(AgentConfig(role, PlainTask, 0, None, NoCriteria),
                            r.toolbox))
            /\ config' = r.config
            /\ ev' = Call("initialize", Cardinality(DOMAIN agents) + 1, 0, None, role)
    /\ UNCHANGED <<plugins, othersButToolboxes>>

\* handle_tool_request up to its spawn_agent call: the temporary toolbox for
\* the forger's prompt is built with the list emptied, and then _create_agent
\* builds the forger's own toolbox the same way.
ToolboxToolRequest ==
    /\ agents # <<>>
    /\ Cardinality(DOMAIN agents) < max_agents
    /\ LET t == forger_toolbox(config, plugins)
           r == create_agent_toolbox(t.config, plugins, "Tool Forging Agent")
       IN  /\ agents' = agents @@
                 ((Cardinality(DOMAIN agents) + 1) :>
                     Agent(AgentConfig("Tool Forging Agent", PlainTask, 0, None,
                                       NoCriteria),
                           r.toolbox))
           /\ config' = r.config
           /\ ev' = Call("handle_tool_request", Cardinality(DOMAIN agents) + 1, 0,
                         None, "Tool Forging Agent")
    /\ UNCHANGED <<plugins, othersButToolboxes>>

\* A generated tool is put in the plugins directory and _refresh_all_toolboxes
\* has every toolbox call refresh().
ToolboxRefreshAll ==
    /\ agents # <<>>
    /\ plugins' = plugins \cup {GeneratedTool}
    /\ agents' = refresh_all_toolboxes([Here EXCEPT !.plugins = plugins']).agents
    /\ ev' = Call("refresh", None, 0, None, "None")
    /\ UNCHANGED <<config, othersButToolboxes>>

\* Bound: the refresh() calls made in a row on one toolbox.
MaxRefreshes == 3

\* How many refresh() calls in a row this one makes on the toolbox of a.
RefreshesInARow(a) ==
    IF ev.op = "refresh_toolbox" /\ ev.agent_id = a THEN ev.amount + 1 ELSE 1

\* One toolbox calls refresh(); the plugins directory and the configuration
\* stay as they are.
ToolboxRefresh ==
    \E a \in DOMAIN agents :
        /\ RefreshesInARow(a) <= MaxRefreshes
        /\ agents' = [agents EXCEPT ![a].toolbox =
                          Toolbox_refresh(@, plugins, config.disabled_tools,
                                          config.allow_messaging)]
        /\ ev' = Call("refresh_toolbox", a, RefreshesInARow(a), None, "None")
        /\ UNCHANGED <<config, plugins, othersButToolboxes>>

NextToolbox ==
    \/ ToolboxRefresh
    \/ ToolboxCreate
    \/ ToolboxRefreshAll
    \/ ToolboxToolRequest

SpecToolbox == InitToolbox /\ [][NextToolbox]_vars

\* The toolboxes last initialized under config.disabled_tools: those of the
\* agents that are not Tool Forging Agents, and all of them after a refresh.
UnderConfig(a) == agents[a].config.role # "Tool Forging Agent" \/ ev.op = "refresh"

\* C19: in every toolbox initialized or refreshed under the configuration, a
\* protected tool found in the plugins directory is registered even if
\* disabled_tools names it, and every other tool named in disabled_tools is
\* absent.
C19_ProtectedToolsKept ==
    \A a \in DOMAIN agents :
        UnderConfig(a)
        => /\ (ProtectedTools \cap plugins) \subseteq agents[a].toolbox
           /\ (config.disabled_tools \ ProtectedTools) \cap agents[a].toolbox = {}

\* C22: with the plugins directory and the configuration unchanged, a second
\* or later refresh() in a row leaves the toolbox with the tool names the
\* refresh() before it left.
C22_RefreshIdempotent ==
    [][\A a \in DOMAIN agents :
        (ev'.op = "refresh_toolbox" /\ ev'.agent_id = a /\ ev'.amount >= 2)
        => /\ plugins' = plugins
           /\ config' = config
           /\ agents'[a].toolbox = agents[a].toolbox]_vars

\* A toolbox that holds tools, under a configuration that disables one of
\* the plugins, has been refreshed at least twice in a row.
C22_Witness ==
    /\ ev.op = "refresh_toolbox"
    /\ ev.amount >= 2
    /\ agents[ev.agent_id].toolbox # {}
    /\ config.disabled_tools \cap plugins # {}
    /\ agents[ev.agent_id].toolbox # plugins

\* C34: no plugin file is ever removed, and every refresh(), of one toolbox
\* or of all of them, leaves in each toolbox every tool name that was
\* registered in it before.
C34_RefreshPreserves ==
    [][/\ plugins \subseteq plugins'
       /\ ev'.op \in {"refresh", "refresh_toolbox"}
          => \A a \in DOMAIN agents : agents[a].toolbox \subseteq agents'[a].toolbox]_vars

Dot == <<".">>
DotDot == <<".", ".">>
FileNames == {<<"w">>, <<"w", "x">>}

\* Bounds: the names of a path argument, and the files on the disk.
MaxPathLen == 3
MaxFiles == 1

RECURSIVE SeqsUpTo(_, _)
SeqsUpTo(S, n) ==
    IF n = 0 THEN {<<>>}
    ELSE SeqsUpTo(S, n - 1)
         \cup {Append(q, x) : q \in {r \in SeqsUpTo(S, n - 1) : Len(r) = n - 1}, x \in S}

PathArguments ==
    [absolute : BOOLEAN, parts : SeqsUpTo(FileNames \cup {Dot, DotDot}, MaxPathLen)]

\* self.workspace_dir = os.path.abspath(workspace_dir): here "/w".
workspace_dir == << <<"w">> >>

\* os.path.normpath on the names of an absolute path: "." is dropped and
\* ".." removes the name before it, if there is one.
RECURSIVE normpath(_, _)
normpath(parts, acc) ==
    IF parts = <<>> THEN acc
    ELSE normpath(Tail(parts),
                  IF Head(parts) = Dot THEN acc
                  ELSE IF Head(parts) = DotDot
                  THEN (IF acc = <<>> THEN acc ELSE SubSeq(acc, 1, Len(acc) - 1))
                  ELSE Append(acc, Head(parts)))

\* os.path.abspath(os.path.join(self.workspace_dir, path)): an absolute
\* path argument replaces the workspace directory.
abspath_join(path) ==
    normpath(IF path.absolute THEN path.parts ELSE workspace_dir \o path.parts, <<>>)

\* The characters of a location as a path string.
RECURSIVE PathString(_)
PathString(location) ==
    IF location = <<>> THEN <<>>
    ELSE <<"/">> \o Head(location) \o PathString(Tail(location))

path_str(location) == IF location = <<>> THEN <<"/">> ELSE PathString(location)

\* str.startswith
startswith(str, prefix) ==
    /\ Len(prefix) <= Len(str)
    /\ SubSeq(str, 1, Len(prefix)) = prefix

\* FileManagerTool._get_safe_path
get_safe_path(path) ==
    LET full_path == abspath_join(path)
    IN  IF ~startswith(path_str(full_path), path_str(workspace_dir))
        THEN [raised |-> "PermissionError", full_path |-> full_path]
        ELSE [raised |-> "", full_path |-> full_path]

\* The directories that exist when the files in files do: "/", the
\* workspace directory and every directory above a file.
Directories(files) ==
    {<<>>, workspace_dir}
    \cup UNION {{SubSeq(f, 1, n) : n \in 0 .. Len(f) - 1} : f \in files}

\* A file lies where the location needs a directory.
ThroughFile(files, location) ==
    \E n \in 1 .. Len(location) - 1 : SubSeq(location, 1, n) \in files

IsEmptyPath(path) == ~path.absolute /\ path.parts = <<>>

Outcome(code, resolved, location, files, delivered) ==
    [code |-> code, resolved |-> resolved, location |-> location, files |-> files,
     delivered |-> delivered]

NotResolved(code) == Outcome(code, FALSE, <<>>, disk, delivery)

\* FileManagerTool._write_file
write_file(path, g) ==
    IF IsEmptyPath(path) THEN NotResolved("INVALID_PARAMETERS")
    ELSE IF g.raised # "" THEN NotResolved("PERMISSION_DENIED")
    ELSE IF ThroughFile(disk, g.full_path)
    THEN Outcome("UNKNOWN_ERROR", TRUE, g.full_path, disk, delivery)
    ELSE IF g.full_path \in Directories(disk)
    THEN Outcome("IS_A_DIRECTORY", TRUE, g.full_path, disk, delivery)
    ELSE Outcome("success", TRUE, g.full_path, disk \cup {g.full_path}, delivery)

\* FileManagerTool._read_file
read_file(path, g) ==
    IF IsEmptyPath(path) THEN NotResolved("INVALID_PARAMETERS")
    ELSE IF g.raised # "" THEN NotResolved("PERMISSION_DENIED")
    ELSE IF g.full_path \in Directories(disk)
    THEN Outcome("IS_A_DIRECTORY", TRUE, g.full_path, disk, delivery)
    ELSE IF g.full_path \notin disk
    THEN Outcome("FILE_NOT_FOUND", TRUE, g.full_path, disk, delivery)
    ELSE Outcome("success", TRUE, g.full_path, disk, delivery)

\* FileManagerTool._list_directory
list_directory(path, g) ==
    IF g.raised # "" THEN NotResolved("PERMISSION_DENIED")
    ELSE IF g.full_path \notin Directories(disk)
    THEN Outcome("DIRECTORY_NOT_FOUND", TRUE, g.full_path, disk, delivery)
    ELSE Outcome("success", TRUE, g.full_path, disk, delivery)

\* FileManagerTool._copy_to_delivery with a delivery folder and the default
\* delivery_name, os.path.basename(path).
copy_to_delivery(path, g) ==
    IF IsEmptyPath(path) THEN NotResolved("INVALID_PARAMETERS")
    ELSE IF g.raised # "" THEN NotResolved("PERMISSION_DENIED")
    ELSE IF g.full_path \in Directories(disk)
    THEN Outcome("IS_A_DIRECTORY", TRUE, g.full_path, disk, delivery)
    ELSE IF g.full_path \notin disk
    THEN Outcome("FILE_NOT_FOUND", TRUE, g.full_path, disk, delivery)
    ELSE Outcome("success", TRUE, g.full_path, disk,
                 delivery \cup {g.full_path[Len(g.full_path)]})

FileOperations == {"write", "read", "list", "copy_to_delivery"}

othersButFiles == <<ledger, opened, config, agents, mailboxes, running_tasks,
                    pending_tool_requests, plugins, workspace, orch, clock, received,
                    llm_calls, lock, calls, serial, connected_clients, notified>>

InitFiles ==
    /\ connected_clients = {}
    /\ notified = <<>>
    /\ disk \in SUBSET { <<<<"w", "x">>, <<"w">>>>, <<<<"w">>, <<"w">>>> }
    /\ Cardinality(disk) <= MaxFiles
    /\ delivery = {}
    /\ ev = Call("init", None, 0, [resolved |-> FALSE, location |-> <<>>], "None")
    /\ config = [allow_tool_creation |-> FALSE, allow_messaging |-> TRUE,
                 disabled_tools |-> {}]
    /\ ledger = [agent_balances |-> <<>>, transactions |-> <<>>]
    /\ opened = <<>>
    /\ agents = <<>>
    /\ mailboxes = <<>>
    /\ running_tasks = <<>>
    /\ pending_tool_requests = <<>>
    /\ plugins = BuiltinPlugins
    /\ workspace = <<>>
    /\ orch = "boot"
    /\ clock = 0
    /\ received = <<>>
    /\ llm_calls = 0
    /\ lock = None
    /\ calls = <<>>
    /\ serial = [agent_balances |-> <<>>, transactions |-> <<>>]

\* FileManagerTool.execute has run the operation with outcome o.
Executed(operation, o) ==
    /\ Cardinality(o.files) <= MaxFiles
    /\ disk' = o.files
    /\ delivery' = o.delivered
    /\ ev' = Call(operation, None, 0, [resolved |-> o.resolved, location |-> o.location],
                  o.code)
    /\ UNCHANGED othersButFiles

FileWrite == \E path \in PathArguments : Executed("write", write_file(path, get_safe_path(path)))

FileRead == \E path \in PathArguments : Executed("read", read_file(path, get_safe_path(path)))

FileList ==
    \E path \in PathArguments : Executed("list", list_directory(path, get_safe_path(path)))

FileCopyToDelivery ==
    \E path \in PathArguments :
        Executed("copy_to_delivery", copy_to_delivery(path, get_safe_path(path)))

NextFiles ==
    \/ FileWrite
    \/ FileRead
    \/ FileList
    \/ FileCopyToDelivery

SpecFiles == InitFiles /\ [][NextFiles]_vars

\* The location is the directory root or lies below it.
IsWithin(root, location) ==
    /\ Len(root) <= Len(location)
    /\ SubSeq(location, 1, Len(root)) = root

\* C20: every file-manager operation either acts on the workspace directory
\* or on a location below it, or it returns PERMISSION_DENIED and leaves the
\* files as they were; no file appears outside the workspace directory.
C20_PathConfined ==
    [][ev'.op \in FileOperations
        => /\ ev'.other.resolved => IsWithin(workspace_dir, ev'.other.location)
           /\ ev'.ret = "PERMISSION_DENIED"
                => (disk' = disk /\ delivery' = delivery /\ ~ev'.other.resolved)
           /\ \A f \in disk' \ disk : IsWithin(workspace_dir, f)]_vars

\* ------------------------------------------------------------------------
\* The visualizer's event stream (Orchestrator._notify_clients)
\* ------------------------------------------------------------------------

\* Bounds: the visualizer clients, and the events sent to them.
MaxClients == 1
MaxEvents == 3

Clients == 1 .. MaxClients

\* An event and the clients _notify_clients sent it to.
Event(type, id, state, payload, clients) ==
    [type |-> type, id |-> id, state |-> state, payload |-> payload, clients |-> clients]

\* _get_graph_state: the nodes of the snapshot.
get_graph_state(A) == {[id |-> a, state |-> A[a].state] : a \in DOMAIN A}

\* _notify_clients: the stream after the event was sent to the clients.
notify_clients(stream, clients, type, id, state, payload) ==
    IF clients # {}
    THEN Append(stream, Event(type, id, state, payload, clients))
    ELSE stream

InitEvents ==
    /\ connected_clients = {}
    /\ notified = <<>>
    /\ config = [allow_tool_creation |-> FALSE, allow_messaging |-> TRUE,
                 disabled_tools |-> {}]
    /\ plugins = BuiltinPlugins
    /\ agents = <<>>
    /\ ev = Call("init", None, 0, None, "None")
    /\ ledger = [agent_balances |-> <<>>, transactions |-> <<>>]
    /\ opened = <<>>
    /\ mailboxes = <<>>
    /\ running_tasks = <<>>
    /\ pending_tool_requests = <<>>
    /\ workspace = <<>>
    /\ orch = "run"
    /\ clock = 0
    /\ received = <<>>
    /\ llm_calls = 0
    /\ delivery = {}
    /\ lock = None
    /\ calls = <<>>
    /\ serial = [agent_balances |-> <<>>, transactions |-> <<>>]
    /\ disk = {}

othersButEvents == <<config, plugins, orch, llm_calls, lock, calls, serial, disk>>

\* _websocket_handler: a client connects and full_sync is sent.
ClientConnects ==
    /\ Len(notified) < MaxEvents
    /\ \E c \in Clients \ connected_clients :
        /\ connected_clients' = connected_clients \cup {c}
        /\ notified' = notify_clients(notified, connected_clients', "full_sync", None, "",
                                      get_graph_state(agents))
        /\ ev' = Call("websocket_handler", None, c, None, "connected")
    /\ UNCHANGED <<ledger, opened, agents, mailboxes, running_tasks, pending_tool_requests,
                   workspace, clock, received, delivery, othersButEvents>>

\* _websocket_handler: the connection is closed.
ClientDisconnects ==
    /\ \E c \in connected_clients :
        /\ connected_clients' = connected_clients \ {c}
        /\ ev' = Call("websocket_handler", None, c, None, "closed")
    /\ UNCHANGED <<ledger, opened, agents, mailboxes, running_tasks, pending_tool_requests,
                   workspace, clock, received, delivery, notified, othersButEvents>>

\* spawn_agent / _create_agent admits an agent or raises: nothing in it
\* calls _notify_clients.  The first agent is the founder, the others are
\* spawned for the founder.
EventsCreateAgent ==
    /\ \E parent_id \in IF agents = <<>> THEN {None} ELSE {1} :
        LET r == spawn_agent(Here, "Specialist", PlainTask, spawn_cost, parent_id,
                             NoCriteria)
        IN  /\ Commit(r.S)
            /\ ev' = Call("create_agent", r.agent_id, spawn_cost, parent_id, r.raised)
    /\ UNCHANGED <<running_tasks, connected_clients, notified, othersButEvents>>

\* _start_new_agent_tasks
EventsStartTasks ==
    /\ running_tasks' = start_new_agent_tasks(Here, running_tasks)
    /\ running_tasks' # running_tasks
    /\ ev' = Call("start_new_agent_tasks", None, 0, None, "None")
    /\ UNCHANGED <<ledger, opened, agents, mailboxes, pending_tool_requests, workspace,
                   clock, received, delivery, connected_clients, notified,
                   othersButEvents>>

\* _run_agent: agent.run() returns or raises, and the finally block sends
\* agent_state_changed with the state the agent is left in.
RunAgentEnds ==
    /\ Len(notified) < MaxEvents
    /\ \E a \in ActiveTasks(running_tasks) : \E state \in {"completed", "failed", "dead"} :
        /\ agents' = [agents EXCEPT ![a].state = state]
        /\ running_tasks' = [running_tasks EXCEPT ![a] = "done"]
        /\ notified' = notify_clients(notified, connected_clients, "agent_state_changed",
                                      a, state, {})
        /\ ev' = Call("run_agent", a, 0, None, state)
    /\ UNCHANGED <<ledger, opened, mailboxes, pending_tool_requests, workspace, clock,
                   received, delivery, connected_clients, othersButEvents>>

NextEvents ==
    \/ ClientConnects
    \/ ClientDisconnects
    \/ EventsCreateAgent
    \/ EventsStartTasks
    \/ RunAgentEnds

SpecEvents == InitEvents /\ [][NextEvents]_vars

\* C31: every admission of an agent while clients are connected sends them
\* exactly one agent_created event for the admitted agent, in the step of
\* the admission (hence in the order of the admissions).
C31_AgentCreatedEmitted ==
    [][\A a \in DOMAIN agents' :
        (a \notin DOMAIN agents /\ connected_clients # {})
        => /\ Len(notified') = Len(notified) + 1
           /\ notified'[Len(notified')].type = "agent_created"
           /\ notified'[Len(notified')].id = a]_vars

====
